---------------------------- MODULE Spec2Model ----------------------------
(***************************************************************************)
(* VibeTube: the acquisition orchestration subsystem of app/ytdlp_utils.py *)
(* and the request handlers of app/main.py that mutate the same catalog.   *)
(*                                                                         *)
(* The relational store is modelled at the level the code relies on: rows  *)
(* of `videos` and `sources` in insertion (rowid) order, one ORM session   *)
(* per handler call.  A session keeps the column values it loaded and, on  *)
(* commit, writes exactly the columns whose value was changed with respect *)
(* to the loaded one (the unit-of-work rule of the ORM); a commit expires  *)
(* the loaded values, so the next attribute access reloads the row.        *)
(***************************************************************************)
EXTENDS Integers, Sequences, FiniteSets, TLC

(***************************************************************************)
(* Bounds of the model.                                                    *)
(***************************************************************************)
MaxCookieLen == 2
MaxVideos == 2          \* external video ids 1..MaxVideos
MaxRaceVideos == 1      \* video ids registered where two downloads interleave
MaxCollections == 2     \* external channel/playlist ids
MaxListing == 2         \* entries of one flat listing
MaxSubfolders == 3      \* rows of `subfolders`, and the ids and names given to them
MaxRowid == 3           \* greatest rowid given while sources are deleted and registered again
MaxInterval == 7        \* longest interval sleep followed second by second
MaxLines == 2           \* lines the discovery tool prints for one flat listing
MaxQueueSources == 2    \* sources registered where the selection meets collections

(***************************************************************************)
(* Program constants.                                                      *)
(***************************************************************************)
\* initialize_settings inserts six rows into `settings`; the row of
\* "youtube_cookies" is created later by update_setting and gets the next id.
NumDefaultSettings == 6
\* download_video: error_message[:500]
ErrCap == 500
\* len("Unknown error"), len("Download failed or file too small")
UnknownErrorLen == 13
TooSmallLen == 33
\* process_download_queue: the floor and the fallback of download_delay,
\* the fixed sleeps (switch off, no eligible video, error), in seconds.
MinDelay == 5
DefaultDelay == 60
PausedSleep == 10
NoItemSleep == 10
QueueErrorSleep == 10
\* scan_library and background_checker: time.sleep(60) after an error.
ScanErrorSleep == 60
PollErrorSleep == 60

VARIABLES
    cookie_setting,       \* the row of key "youtube_cookies" in `settings`
    GLOBAL_COOKIE_FILE,   \* module global: cached path, or "None"
    COOKIE_TIMESTAMP,     \* module global: the change token last seen
    cookie_disk,          \* the file at downloads/.temp/youtube_cookies.txt
    cookie_result,        \* what the last get_cookie_file call returned
    cookie_op,            \* the last operation on the credential cache
    videos,               \* table `videos`, rows in rowid order
    sources,              \* table `sources`, rows in rowid order
    fs,                   \* video folders on disk and the .mp4 inside each
    dl,                   \* the download_video calls in flight, per caller
    qp,                   \* the thread of process_download_queue
    changed_count,        \* changed_count of the last library scan pass
    global_auto_download, \* setting "auto_download" is "true"
    download_queue_running, \* module global: the queue processor's flag
    library_scan_running, \* module global: the library scanner's flag
    settings,             \* the numeric rows of `settings`, by key
    poller,               \* the thread of background_checker
    scanner,              \* the thread of scan_library
    subfolders,           \* table `subfolders`, rows in rowid order
    subfolder_response,   \* the last request on a subfolder and its status
    refresh,              \* the session of a refresh_sources call under way
    resolver,             \* the call of a resolver function and its result
    delete_result,        \* what the last delete_video_files call returned
    adding                \* the add_source call under way and how the last ended

cookieVars == <<cookie_setting, GLOBAL_COOKIE_FILE, COOKIE_TIMESTAMP,
                cookie_disk, cookie_result, cookie_op>>

\* The loops' flags and threads, the settings they read, the buckets.
loopVars == <<download_queue_running, library_scan_running, settings, poller,
              scanner, subfolders,
                   subfolder_response, refresh, resolver,
                   delete_result, adding>>

catalogVars == <<videos, sources, fs, dl, qp, changed_count,
                 global_auto_download, loopVars>>

vars == <<cookieVars, catalogVars>>

----------------------------------------------------------------------------
(***************************************************************************)
(* Credential cache: get_cookie_file and the handlers writing the setting. *)
(* Texts are sequences of characters so that str.strip() is computed.      *)
(***************************************************************************)
CookieChars == {" ", "a", "b"}

CookieTexts == UNION {[1..n -> CookieChars] : n \in 0..MaxCookieLen}

CookiePath == "downloads/.temp/youtube_cookies.txt"

NoCookieFile == [exists |-> FALSE, content |-> <<>>]

RECURSIVE LStrip(_)
LStrip(t) == IF t # <<>> /\ Head(t) = " " THEN LStrip(Tail(t)) ELSE t

RECURSIVE RStrip(_)
RStrip(t) ==
    IF t # <<>> /\ t[Len(t)] = " " THEN RStrip(SubSeq(t, 1, Len(t) - 1)) ELSE t

\* str.strip()
Strip(t) == RStrip(LStrip(t))

\* get_setting("youtube_cookies") is None, "" or whitespace only.
CookiesBlank ==
    \/ ~cookie_setting.present
    \/ cookie_setting.value = <<>>
    \/ Strip(cookie_setting.value) = <<>>

\* SELECT rowid FROM settings WHERE key = 'youtube_cookies'
CookieRowId == NumDefaultSettings + 1

\* POST /update_setting with key = "youtube_cookies".
UpdateCookieSetting ==
    /\ \E value \in CookieTexts :
         cookie_setting' = [present |-> TRUE, value |-> value]
    /\ cookie_op' = "update_setting"
    /\ UNCHANGED catalogVars
    /\ UNCHANGED <<GLOBAL_COOKIE_FILE, COOKIE_TIMESTAMP, cookie_disk,
                   cookie_result>>

\* POST /clear_youtube_cookies.
ClearYoutubeCookies ==
    /\ cookie_setting' =
         IF cookie_setting.present
         THEN [cookie_setting EXCEPT !.value = <<>>]
         ELSE cookie_setting
    /\ cookie_op' = "clear_youtube_cookies"
    /\ UNCHANGED catalogVars
    /\ UNCHANGED <<GLOBAL_COOKIE_FILE, COOKIE_TIMESTAMP, cookie_disk,
                   cookie_result>>

\* The change test of get_cookie_file: the rowid against COOKIE_TIMESTAMP.
SettingUpdated == cookie_setting.present /\ CookieRowId > COOKIE_TIMESTAMP

\* get_cookie_file, one call under COOKIE_LOCK.
GetCookieFile ==
    /\ cookie_op' = "get_cookie_file"
    /\ UNCHANGED catalogVars
    /\ IF CookiesBlank
       THEN /\ IF GLOBAL_COOKIE_FILE # "None" /\ cookie_disk.exists
               THEN /\ cookie_disk' = NoCookieFile
                    /\ GLOBAL_COOKIE_FILE' = "None"
               ELSE UNCHANGED <<cookie_disk, GLOBAL_COOKIE_FILE>>
            /\ cookie_result' = "None"
            /\ UNCHANGED <<cookie_setting, COOKIE_TIMESTAMP>>
       ELSE /\ COOKIE_TIMESTAMP' =
                 IF SettingUpdated THEN CookieRowId ELSE COOKIE_TIMESTAMP
            /\ IF GLOBAL_COOKIE_FILE = "None" \/ ~cookie_disk.exists
                  \/ SettingUpdated
               THEN /\ cookie_disk' =
                         [exists |-> TRUE, content |-> cookie_setting.value]
                    /\ GLOBAL_COOKIE_FILE' = CookiePath
               ELSE UNCHANGED <<cookie_disk, GLOBAL_COOKIE_FILE>>
            /\ cookie_result' = GLOBAL_COOKIE_FILE'
            /\ UNCHANGED cookie_setting

\* The process is restarted while no acquisition is in flight: the module
\* globals are re-initialised (lines 34-35), the database and the files on
\* disk stay.
RestartProcess ==
    /\ \A t \in DOMAIN qp : qp[t].pc \in {"top", "unstarted"}
    /\ \A w \in DOMAIN dl : dl[w].pc = "idle"
    /\ GLOBAL_COOKIE_FILE' = "None"
    /\ COOKIE_TIMESTAMP' = 0
    /\ cookie_result' = "not_called"
    /\ cookie_op' = "restart"
    /\ UNCHANGED catalogVars
    /\ UNCHANGED <<cookie_setting, cookie_disk>>

\* Someone outside the program removes the credential file.
ExternalRemoveCookieFile ==
    /\ cookie_disk.exists
    /\ cookie_disk' = NoCookieFile
    /\ cookie_op' = "external_remove"
    /\ UNCHANGED catalogVars
    /\ UNCHANGED <<cookie_setting, GLOBAL_COOKIE_FILE, COOKIE_TIMESTAMP,
                   cookie_result>>

CookieInit ==
    /\ cookie_setting = [present |-> FALSE, value |-> <<>>]
    /\ GLOBAL_COOKIE_FILE = "None"
    /\ COOKIE_TIMESTAMP = 0
    /\ cookie_disk = NoCookieFile
    /\ cookie_result = "not_called"
    /\ cookie_op = "init"

----------------------------------------------------------------------------
(***************************************************************************)
(* The numeric settings the loops read, and int() of their text.           *)
(***************************************************************************)
NumericKeys == {"download_delay", "check_interval", "scan_interval"}

\* The values initialize_settings inserts.
DefaultSettingText(key) ==
    CASE key = "download_delay" -> <<"6", "0">>
      [] key = "check_interval" -> <<"3", "6", "0", "0">>
      [] key = "scan_interval" -> <<"8", "6", "4", "0", "0">>

\* Texts an operator posts to /update_setting.
SettingTexts == {<<>>, <<"x">>, <<"0">>, <<"3">>, <<"7">>, <<"-", "1">>}

Digits == {"0", "1", "2", "3", "4", "5", "6", "7", "8", "9"}

DigitVal(c) ==
    CASE c = "0" -> 0 [] c = "1" -> 1 [] c = "2" -> 2 [] c = "3" -> 3
      [] c = "4" -> 4 [] c = "5" -> 5 [] c = "6" -> 6 [] c = "7" -> 7
      [] c = "8" -> 8 [] c = "9" -> 9

RECURSIVE DigitsVal(_)
DigitsVal(t) ==
    IF t = <<>> THEN 0
    ELSE 10 * DigitsVal(SubSeq(t, 1, Len(t) - 1)) + DigitVal(t[Len(t)])

AllDigits(t) == t # <<>> /\ \A i \in DOMAIN t : t[i] \in Digits

\* int(value): the number, or ValueError (a text that is no decimal
\* integer) or TypeError (None, the row is missing).
ParseInt(row) ==
    IF ~row.present THEN [ok |-> FALSE, n |-> 0]
    ELSE IF AllDigits(row.value) THEN [ok |-> TRUE, n |-> DigitsVal(row.value)]
    ELSE IF row.value # <<>> /\ Head(row.value) = "-" /\ AllDigits(Tail(row.value))
    THEN [ok |-> TRUE, n |-> 0 - DigitsVal(Tail(row.value))]
    ELSE [ok |-> FALSE, n |-> 0]

\* POST /update_setting on a numeric key: the row must exist.
UpdateNumericSetting ==
    \E key \in NumericKeys, text \in SettingTexts :
      /\ settings[key].present
      /\ settings' = [settings EXCEPT ![key].value = text]
      /\ UNCHANGED <<videos, sources, fs, dl, qp, changed_count,
                     global_auto_download>>
      /\ UNCHANGED <<download_queue_running, library_scan_running, poller,
                     scanner, subfolders,
                   subfolder_response, refresh, resolver,
                   delete_result, adding>>
      /\ UNCHANGED cookieVars

\* A row of `settings` is removed from the database by hand.
RemoveSettingRow ==
    \E key \in NumericKeys :
      /\ settings[key].present
      /\ settings' = [settings EXCEPT ![key] = [present |-> FALSE, value |-> <<>>]]
      /\ UNCHANGED <<videos, sources, fs, dl, qp, changed_count,
                     global_auto_download>>
      /\ UNCHANGED <<download_queue_running, library_scan_running, poller,
                     scanner, subfolders,
                   subfolder_response, refresh, resolver,
                   delete_result, adding>>
      /\ UNCHANGED cookieVars

----------------------------------------------------------------------------
(***************************************************************************)
(* Catalog: rows, paths and the files on disk.                             *)
(***************************************************************************)
VideoIds == 1..MaxVideos

\* External ids of channels and playlists (another namespace than video ids).
CollectionIds == {100 + i : i \in 1..MaxCollections}

\* A DateTime column holds NULL or the utcnow() of the write that set it.
NoDate == "NULL"

UtcNow == "utcnow"

\* The utcnow() add_source gives last_checked: earlier than that of any
\* pass of refresh_sources over the source.
AddedAt == "added"

\* Flat listings the discovery tool can print: sequences of video ids, an id
\* possibly repeated; the empty listing is also what a failed call yields.
Listings == UNION {[1..n -> VideoIds] : n \in 0..MaxListing}

\* The title the discovery tool reports for a video id.
TitleOf(v) ==
    CASE v = 1 -> <<"a", "/">>
      [] v = 2 -> <<>>
      [] v = 3 -> <<"a", "_">>
      [] OTHER -> <<"b">>

UnsafeChars == {"/", "\\", ":", "?", "\"", "*", "<", ">", "|"}

\* title.replace('/', '_').replace('\\', '_')... of download_video
SafeTitle(t) == [i \in 1..Len(t) |-> IF t[i] \in UnsafeChars THEN "_" ELSE t[i]]

NoPath == [t |-> <<>>, id |-> 0]

\* video_folder_name: the sanitized title, or the video id when it is empty.
\* The folder holds one file <folder name>.mp4, so the folder names the
\* output file too.
OutputFile(v) ==
    IF SafeTitle(TitleOf(v)) # <<>>
    THEN [t |-> SafeTitle(TitleOf(v)), id |-> 0]
    ELSE [t |-> <<>>, id |-> v]

\* os.path.exists(os.path.dirname(path))
FolderExists(disk, path) == path \in DOMAIN disk

\* os.path.exists(path)
FileExists(disk, path) == path \in DOMAIN disk /\ disk[path] # "nofile"

\* A size test that finds no file too small.
FileTooSmallNever(disk, path) == FALSE

\* os.path.getsize(output_file) < 10000
FileTooSmall(disk, path) == disk[path] = "small"

\* A row of `videos` as its column defaults make it.
NewVideo(v, src, skip) ==
    [video_id |-> v, source_id |-> src, downloaded |-> FALSE,
     download_path |-> NoPath, download_date |-> NoDate, file_deleted |-> FALSE,
     skip |-> skip, failed_download |-> FALSE, error_message |-> 0]

\* The place of a deleted row: rowids are places in the sequence, and a
\* rowid below the greatest one is not given again.
DeletedVideo == NewVideo(0, 0, FALSE)

\* The row with rowid r exists.
RowLive(vs, r) == r \in DOMAIN vs /\ vs[r].video_id # 0

\* session.query(Video).filter_by(video_id=v).first(): the rowid, 0 if none.
RowOf(vs, v) ==
    IF \E i \in DOMAIN vs : vs[i].video_id = v
    THEN CHOOSE i \in DOMAIN vs :
           /\ vs[i].video_id = v
           /\ \A j \in DOMAIN vs : vs[j].video_id = v => i <= j
    ELSE 0

SourceExists(ss, sid) == \E i \in DOMAIN ss : ss[i].source_id = sid

\* The loop over one listing without the lookup of the video id: every
\* entry is appended.
RECURSIVE AddListingWithoutLookup(_, _, _, _)
AddListingWithoutLookup(vs, listing, src, skip) ==
    IF listing = <<>> THEN vs
    ELSE AddListingWithoutLookup(Append(vs, NewVideo(Head(listing), src, skip)),
                                 Tail(listing), src, skip)

\* The dedup loop of add_source and refresh_sources over one listing: each
\* entry not yet in the table (rows added earlier in the same session are
\* seen, the session autoflushes before a query) is appended.
RECURSIVE AddListing(_, _, _, _)
AddListing(vs, listing, src, skip) ==
    IF listing = <<>> THEN vs
    ELSE AddListing(
           IF RowOf(vs, Head(listing)) # 0 THEN vs
           ELSE Append(vs, NewVideo(Head(listing), src, skip)),
           Tail(listing), src, skip)

----------------------------------------------------------------------------
(***************************************************************************)
(* Registration and discovery.                                             *)
(***************************************************************************)
\* The name initialize_settings gives the subfolder it makes; the names a
\* request can give are 1..MaxSubfolders.
DefaultName == 0

\* No request on a subfolder was made yet.
NoResponse == [op |-> "none", id |-> 0, status |-> 0]

\* session.query(Subfolder).filter_by(is_default=True).first(), as a row
\* number: 0 if no row has the flag.
FirstDefault(sfs) ==
    IF \E i \in DOMAIN sfs : sfs[i].is_default
    THEN CHOOSE i \in DOMAIN sfs :
           sfs[i].is_default /\ \A j \in DOMAIN sfs : sfs[j].is_default => i <= j
    ELSE 0

\* add_source_endpoint with no subfolder given: the id of the default
\* subfolder, 0 (None) when there is none.
DefaultSubfolderId(sfs) ==
    IF FirstDefault(sfs) = 0 THEN 0 ELSE sfs[FirstDefault(sfs)].id

NewSource(type, sid, auto) ==
    [source_type |-> type, source_id |-> sid, auto_download |-> auto,
     last_checked |-> AddedAt, subfolder_id |-> DefaultSubfolderId(subfolders)]

\* add_source(source_type, source_id, auto_download) when the source is new
\* and the resolver yields data: the source row and its not yet present
\* videos, in one commit.  Video rows get the column default skip = False.
AddSourceRows(type, sid, auto, listing) ==
    /\ ~SourceExists(sources, sid)
    /\ sources' = Append(sources, NewSource(type, sid, auto))
    /\ videos' = AddListing(videos, listing, Len(sources) + 1, FALSE)
    /\ UNCHANGED <<fs, dl, qp, changed_count, global_auto_download>>
    /\ UNCHANGED cookieVars
    /\ UNCHANGED loopVars

\* source_type == "video": get_video_info(source_id) describes that video.
AddVideoSource(ids) ==
    \E sid \in ids, auto \in BOOLEAN :
      AddSourceRows("video", sid, auto, <<sid>>)

\* source_type == "channel" or "playlist": a non-empty flat listing.
AddCollectionSource ==
    \E type \in {"channel", "playlist"}, sid \in CollectionIds,
       auto \in BOOLEAN, listing \in Listings \ {<<>>} :
      AddSourceRows(type, sid, auto, listing)

\* No add_source call was made yet.
NoAddSource ==
    [pc |-> "idle", type |-> "none", sid |-> 0, auto |-> FALSE,
     listing |-> <<>>, last |-> "none"]

\* The calls add_source can get with what the resolver yields for each: a
\* flat listing for a channel or playlist, the one video for a video; the
\* empty listing stands for a resolver that yields no data.
AddSourceCalls ==
    [pc : {"idle"}, type : {"channel", "playlist"}, sid : CollectionIds,
     auto : BOOLEAN, listing : Listings, last : {"none"}]
      \cup UNION {[pc : {"idle"}, type : {"video"}, sid : {v}, auto : BOOLEAN,
                    listing : {<<>>, <<v>>}, last : {"none"}] : v \in VideoIds}

\* The call has ended in the way `last` tells; its source id and the
\* listing it had are kept.
AddSourceEnded(call, last) ==
    [NoAddSource EXCEPT !.sid = call.sid, !.listing = call.listing,
                        !.last = last]

\* Lines 750-789: the lookup of the source id, then the resolver.  Nothing
\* is written yet; the two early returns close the session.
AddSourceBegin ==
    /\ adding.pc = "idle"
    /\ \E call \in AddSourceCalls :
         adding' = IF SourceExists(sources, call.sid)
                   THEN AddSourceEnded(call, "exists")
                   ELSE IF call.listing = <<>>
                   THEN AddSourceEnded(call, "nodata")
                   ELSE [call EXCEPT !.pc = "resolved", !.last = "none"]
    /\ UNCHANGED <<videos, sources, fs, dl, qp, changed_count,
                   global_auto_download>>
    /\ UNCHANGED <<download_queue_running, library_scan_running, settings,
                   poller, scanner, subfolders, subfolder_response, refresh,
                   resolver, delete_result>>
    /\ UNCHANGED cookieVars

\* Lines 797-848: the INSERT of the source (session.flush) opens the write
\* transaction, which the store gives to one connection at a time; the
\* videos not yet in the table are added and all is committed at line 848.
\* A source of the same id committed since the lookup makes the INSERT
\* fail: the exception leaves add_source and nothing is written.
AddSourceWrite ==
    /\ adding.pc = "resolved"
    /\ IF SourceExists(sources, adding.sid)
       THEN /\ adding' = AddSourceEnded(adding, "raised")
            /\ UNCHANGED <<videos, sources>>
       ELSE /\ adding' = AddSourceEnded(adding, "added")
            /\ sources' = Append(sources,
                                 NewSource(adding.type, adding.sid, adding.auto))
            /\ videos' = AddListing(videos, adding.listing, Len(sources) + 1,
                                    FALSE)
    /\ UNCHANGED <<fs, dl, qp, changed_count, global_auto_download>>
    /\ UNCHANGED <<download_queue_running, library_scan_running, settings,
                   poller, scanner, subfolders, subfolder_response, refresh,
                   resolver, delete_result>>
    /\ UNCHANGED cookieVars

\* An add_source that commits the source row on its own: an exception after
\* that leaves the source without its videos.
AddSourceRaiseAfterSource ==
    /\ adding.pc = "resolved"
    /\ ~SourceExists(sources, adding.sid)
    /\ adding' = AddSourceEnded(adding, "raised")
    /\ sources' = Append(sources,
                         NewSource(adding.type, adding.sid, adding.auto))
    /\ UNCHANGED <<videos, fs, dl, qp, changed_count, global_auto_download>>
    /\ UNCHANGED <<download_queue_running, library_scan_running, settings,
                   poller, scanner, subfolders, subfolder_response, refresh,
                   resolver, delete_result>>
    /\ UNCHANGED cookieVars

\* An exception between line 791 and the commit (the store is locked by
\* another writer, the disk is full): the session is dropped with what was
\* pending, nothing is written.
AddSourceRaise ==
    /\ adding.pc = "resolved"
    /\ adding' = AddSourceEnded(adding, "raised")
    /\ UNCHANGED <<videos, sources, fs, dl, qp, changed_count,
                   global_auto_download>>
    /\ UNCHANGED <<download_queue_running, library_scan_running, settings,
                   poller, scanner, subfolders, subfolder_response, refresh,
                   resolver, delete_result>>
    /\ UNCHANGED cookieVars

\* The rows of channel and playlist sources.
CollectionRows(ss) ==
    {k \in DOMAIN ss : ss[k].source_type \notin {"video", "deleted"}}

\* The loop of refresh_sources over the sources from row k on; L gives the
\* listing the resolver returns for each collection source.
RECURSIVE RefreshFrom(_, _, _, _)
RefreshFrom(vs, ss, k, L) ==
    IF k > Len(ss) THEN vs
    ELSE IF k \notin CollectionRows(ss) THEN RefreshFrom(vs, ss, k + 1, L)
    ELSE RefreshFrom(AddListing(vs, L[k], k, ~ss[k].auto_download),
                     ss, k + 1, L)

\* A pass that leaves last_checked as it was.
RefreshCheckedNever(ss) == ss

\* source.last_checked = utcnow() for every source the loop does not skip.
RefreshChecked(ss) ==
    [k \in DOMAIN ss |->
       IF k \notin CollectionRows(ss) THEN ss[k]
       ELSE [ss[k] EXCEPT !.last_checked = UtcNow]]

\* refresh_sources(): one pass, of background_checker or of
\* POST /refresh_sources, committed once.
RefreshSources ==
    \E L \in [CollectionRows(sources) -> Listings] :
      /\ videos' = RefreshFrom(videos, sources, 1, L)
      /\ sources' = RefreshChecked(sources)
      /\ UNCHANGED <<fs, dl, qp, changed_count, global_auto_download>>
      /\ UNCHANGED cookieVars
      /\ UNCHANGED loopVars

\* The fields of an entry the discovery tool prints, and their values.
Fields == {"id", "title"}

FieldValues == {"a", "b"}

\* The JSON objects over these fields: json.loads gives a dict.
Infos == UNION {[S -> FieldValues] : S \in SUBSET Fields}

\* What get_video_info returns for the id of an entry: a dict or None.
Lookups ==
    {[ok |-> FALSE, info |-> <<>>]} \cup [ok : {TRUE}, info : Infos]

\* A line of the flat listing: blank, no JSON, or an entry together with
\* what the detailed lookup of its id gives.
ListingLines ==
    [kind : {"blank", "bad"}, entry : {<<>>}, detailed : {[ok |-> FALSE, info |-> <<>>]}]
      \cup [kind : {"entry"}, entry : Infos, detailed : Lookups]

\* A merge in which the fields of the listing entry replace those of the
\* detailed lookup.
EnrichListingFirst(entry, detailed) ==
    IF "id" \notin DOMAIN entry \/ ~detailed.ok \/ detailed.info = <<>> THEN entry
    ELSE [key \in DOMAIN detailed.info \cup DOMAIN entry |->
            IF key \in DOMAIN entry THEN entry[key] ELSE detailed.info[key]]

\* Lines 160-169 (202-211): an entry with an id whose detailed lookup gives
\* a non-empty dict becomes that dict, with the keys it lacks added from
\* the entry.
Enrich(entry, detailed) ==
    IF "id" \notin DOMAIN entry \/ ~detailed.ok \/ detailed.info = <<>> THEN entry
    ELSE [key \in DOMAIN detailed.info \cup DOMAIN entry |->
            IF key \in DOMAIN detailed.info THEN detailed.info[key] ELSE entry[key]]

\* The loop over result.stdout.splitlines(): blank lines are passed over,
\* every other line is parsed and enriched.
RECURSIVE EnrichLines(_)
EnrichLines(lines) ==
    IF lines = <<>> THEN <<>>
    ELSE IF Head(lines).kind = "blank" THEN EnrichLines(Tail(lines))
    ELSE <<Enrich(Head(lines).entry, Head(lines).detailed)>>
           \o EnrichLines(Tail(lines))

\* No resolver function is being called.
NoResolverCall ==
    [fn |-> "none", launch |-> "ok", rc |-> 0, lines |-> <<>>, out |-> <<>>,
     raised |-> "no"]

\* How a call of get_channel_videos or get_playlist_videos ends: the name
\* of the exception that leaves it, or "no".  subprocess.run raises
\* FileNotFoundError when yt-dlp cannot be started and CalledProcessError
\* (check=True) on a non-zero exit; json.loads raises JSONDecodeError.  The
\* two except clauses name CalledProcessError and JSONDecodeError.
ResolverRaises(launch, rc, lines) ==
    IF launch = "missing" THEN "FileNotFoundError" ELSE "no"

\* What the call returns when it returns.
ResolverReturns(launch, rc, lines) ==
    IF launch = "missing" \/ rc # 0 THEN <<>>
    ELSE IF \E i \in DOMAIN lines : lines[i].kind = "bad" THEN <<>>
    ELSE EnrichLines(lines)

\* get_channel_videos(channel_id) and get_playlist_videos(playlist_id):
\* the same body after the URL.
GetCollectionVideos ==
    /\ resolver.fn = "none"
    /\ \E launch \in {"ok", "missing"}, rc \in {0, 1}, n \in 0..MaxLines :
       \E lines \in [1..n -> ListingLines] :
      /\ resolver' = [fn |-> "get_collection_videos", launch |-> launch,
                      rc |-> rc, lines |-> lines,
                      out |-> ResolverReturns(launch, rc, lines),
                      raised |-> ResolverRaises(launch, rc, lines)]
      /\ UNCHANGED <<videos, sources, fs, dl, qp, changed_count,
                     global_auto_download>>
      /\ UNCHANGED <<download_queue_running, library_scan_running, settings,
                     poller, scanner, subfolders, subfolder_response, refresh,
                   delete_result, adding>>
      /\ UNCHANGED cookieVars

\* get_video_info(video_id): the one printed object, or None (here the
\* empty list) after a non-zero exit or output that is no JSON.
GetVideoInfo ==
    /\ resolver.fn = "none"
    /\ \E launch \in {"ok", "missing"}, rc \in {0, 1},
          line \in {l \in ListingLines : l.kind # "blank"} :
      /\ resolver' = [fn |-> "get_video_info", launch |-> launch,
                      rc |-> rc, lines |-> <<line>>,
                      out |-> IF launch = "missing" \/ rc # 0 \/ line.kind = "bad"
                              THEN <<>> ELSE <<line.entry>>,
                      raised |-> ResolverRaises(launch, rc, <<line>>)]
      /\ UNCHANGED <<videos, sources, fs, dl, qp, changed_count,
                     global_auto_download>>
      /\ UNCHANGED <<download_queue_running, library_scan_running, settings,
                     poller, scanner, subfolders, subfolder_response, refresh,
                   delete_result, adding>>
      /\ UNCHANGED cookieVars

\* The caller has taken what the resolver function gave it.
ResolverDone ==
    /\ resolver.fn # "none"
    /\ resolver' = NoResolverCall
    /\ UNCHANGED <<videos, sources, fs, dl, qp, changed_count,
                   global_auto_download>>
    /\ UNCHANGED <<download_queue_running, library_scan_running, settings,
                   poller, scanner, subfolders, subfolder_response, refresh,
                   delete_result, adding>>
    /\ UNCHANGED cookieVars

\* No refresh_sources call was made yet.
NoRefresh == [pc |-> "idle", ss |-> <<>>, k |-> 0, added |-> <<>>, last |-> "none"]

\* The rows `videos` holds beyond those of `vs`.
RowsAfter(vs, all) == SubSeq(all, Len(vs) + 1, Len(all))

\* Line 857: the session loads the sources; nothing is pending.
RefreshBegin ==
    /\ refresh.pc = "idle"
    /\ refresh' = [pc |-> IF sources = <<>> THEN "commit" ELSE "loop",
                   ss |-> sources, k |-> 1, added |-> <<>>, last |-> "none"]
    /\ UNCHANGED <<videos, sources, fs, dl, qp, changed_count,
                   global_auto_download>>
    /\ UNCHANGED <<download_queue_running, library_scan_running, settings,
                   poller, scanner, subfolders, subfolder_response, resolver,
                   delete_result, adding>>
    /\ UNCHANGED cookieVars

\* last_checked = utcnow() on the loaded sources `rows`, written by primary
\* key.
StampChecked(ss, rows) ==
    [k \in DOMAIN ss |->
       IF k \in rows THEN [ss[k] EXCEPT !.last_checked = UtcNow] ELSE ss[k]]

\* An iteration that commits what it did for its source.
RefreshOneCommitting ==
    /\ refresh.pc = "loop"
    /\ IF refresh.k \notin CollectionRows(refresh.ss)
       THEN UNCHANGED <<videos, sources>>
       ELSE \E listing \in Listings :
              /\ videos' = AddListing(videos, listing, refresh.k,
                                      ~refresh.ss[refresh.k].auto_download)
              /\ sources' = StampChecked(sources, {refresh.k} \cap DOMAIN sources)
    /\ refresh' = [refresh EXCEPT
                     !.pc = IF refresh.k = Len(refresh.ss) THEN "commit" ELSE "loop",
                     !.k = @ + 1]
    /\ UNCHANGED <<fs, dl, qp, changed_count, global_auto_download>>
    /\ UNCHANGED <<download_queue_running, library_scan_running, settings,
                   poller, scanner, subfolders, subfolder_response, resolver,
                   delete_result, adding>>
    /\ UNCHANGED cookieVars

\* Lines 860-904, one iteration of the loop over the loaded sources: a
\* source of type "video" is passed over; for a channel or playlist the
\* listed videos that neither the table nor the session holds become
\* pending rows of the session, and so does its last_checked.
RefreshOne ==
    /\ refresh.pc = "loop"
    /\ IF refresh.k \notin CollectionRows(refresh.ss)
       THEN refresh' = [refresh EXCEPT
                          !.pc = IF refresh.k = Len(refresh.ss) THEN "commit"
                                 ELSE "loop",
                          !.k = @ + 1]
       ELSE \E listing \in Listings :
              refresh' = [refresh EXCEPT
                 !.pc = IF refresh.k = Len(refresh.ss) THEN "commit" ELSE "loop",
                 !.k = @ + 1,
                 !.added = RowsAfter(videos,
                             AddListing(videos \o refresh.added, listing,
                                        refresh.k,
                                        ~refresh.ss[refresh.k].auto_download))]
    /\ UNCHANGED <<videos, sources, fs, dl, qp, changed_count,
                   global_auto_download>>
    /\ UNCHANGED <<download_queue_running, library_scan_running, settings,
                   poller, scanner, subfolders, subfolder_response, resolver,
                   delete_result, adding>>
    /\ UNCHANGED cookieVars

\* An exception in the loop or in the commit (a resolver raises, the store
\* fails): the call ends, its session is dropped with what was pending.
RefreshRaise ==
    /\ refresh.pc \in {"loop", "commit"}
    /\ refresh' = [refresh EXCEPT !.pc = "idle", !.last = "raised"]
    /\ UNCHANGED <<videos, sources, fs, dl, qp, changed_count,
                   global_auto_download>>
    /\ UNCHANGED <<download_queue_running, library_scan_running, settings,
                   poller, scanner, subfolders, subfolder_response, resolver,
                   delete_result, adding>>
    /\ UNCHANGED cookieVars

\* A pending row has a video_id that a row of the table has by now:
\* video_id is unique, the INSERT fails.
RefreshConflict ==
    \E i \in DOMAIN refresh.added : RowOf(videos, refresh.added[i].video_id) # 0

\* Line 906: session.commit() writes the pending rows and the last_checked
\* of the loaded channel and playlist sources in one transaction, or fails
\* as a whole.
RefreshCommit ==
    /\ refresh.pc = "commit"
    /\ IF RefreshConflict
       THEN /\ refresh' = [refresh EXCEPT !.pc = "idle", !.last = "raised"]
            /\ UNCHANGED <<videos, sources>>
       ELSE /\ refresh' = [refresh EXCEPT !.pc = "idle", !.last = "committed"]
            /\ videos' = videos \o refresh.added
            /\ sources' = StampChecked(sources,
                             CollectionRows(refresh.ss) \cap DOMAIN sources)
    /\ UNCHANGED <<fs, dl, qp, changed_count, global_auto_download>>
    /\ UNCHANGED <<download_queue_running, library_scan_running, settings,
                   poller, scanner, subfolders, subfolder_response, resolver,
                   delete_result, adding>>
    /\ UNCHANGED cookieVars

\* A loop thread going to sleep for `secs` seconds (none if secs <= 0).
LoopAsleep(wait, secs) ==
    IF secs > 0 THEN [pc |-> "sleep", wait |-> wait, left |-> secs]
    ELSE [pc |-> "top", wait |-> "none", left |-> 0]

\* background_checker, one iteration whose check_interval parses: the
\* pass, then time.sleep(check_interval), which raises on a negative value.
PollerPass ==
    /\ poller.pc = "top"
    /\ ParseInt(settings["check_interval"]).ok
    /\ \E L \in [CollectionRows(sources) -> Listings] :
         /\ videos' = RefreshFrom(videos, sources, 1, L)
         /\ sources' = RefreshChecked(sources)
    /\ poller' = IF ParseInt(settings["check_interval"]).n < 0
                 THEN LoopAsleep("error", PollErrorSleep)
                 ELSE LoopAsleep("interval", ParseInt(settings["check_interval"]).n)
    /\ UNCHANGED <<fs, dl, qp, changed_count, global_auto_download>>
    /\ UNCHANGED <<download_queue_running, library_scan_running, settings,
                   scanner, subfolders,
                   subfolder_response, refresh, resolver,
                   delete_result, adding>>
    /\ UNCHANGED cookieVars

\* background_checker, one iteration whose int(get_setting("check_interval"))
\* raises: line 75 is the first of the try block, the except clause sleeps.
PollerConfigError ==
    /\ poller.pc = "top"
    /\ ~ParseInt(settings["check_interval"]).ok
    /\ poller' = LoopAsleep("error", PollErrorSleep)
    /\ UNCHANGED <<videos, sources, fs, dl, qp, changed_count,
                   global_auto_download>>
    /\ UNCHANGED <<download_queue_running, library_scan_running, settings,
                   scanner, subfolders,
                   subfolder_response, refresh, resolver,
                   delete_result, adding>>
    /\ UNCHANGED cookieVars

\* background_checker, one iteration in which refresh_sources raises (the
\* store fails): nothing of the pass is committed.
PollerError ==
    /\ poller.pc = "top"
    /\ ParseInt(settings["check_interval"]).ok
    /\ poller' = LoopAsleep("error", PollErrorSleep)
    /\ UNCHANGED <<videos, sources, fs, dl, qp, changed_count,
                   global_auto_download>>
    /\ UNCHANGED <<download_queue_running, library_scan_running, settings,
                   scanner, subfolders,
                   subfolder_response, refresh, resolver,
                   delete_result, adding>>
    /\ UNCHANGED cookieVars

\* The sleep of background_checker is over.
PollerWake ==
    /\ poller.pc = "sleep"
    /\ poller' = LoopAsleep("none", 0)
    /\ UNCHANGED <<videos, sources, fs, dl, qp, changed_count,
                   global_auto_download>>
    /\ UNCHANGED <<download_queue_running, library_scan_running, settings,
                   scanner, subfolders,
                   subfolder_response, refresh, resolver,
                   delete_result, adding>>
    /\ UNCHANGED cookieVars

\* One second of the sleep of background_checker: time.sleep(check_interval)
\* and time.sleep(60) test nothing.
PollerTick ==
    /\ poller.pc = "sleep"
    /\ poller' = LoopAsleep(poller.wait, poller.left - 1)
    /\ UNCHANGED <<videos, sources, fs, dl, qp, changed_count,
                   global_auto_download>>
    /\ UNCHANGED <<download_queue_running, library_scan_running, settings,
                   scanner, subfolders,
                   subfolder_response, refresh, resolver,
                   delete_result, adding>>
    /\ UNCHANGED cookieVars

\* POST /toggle_auto_download/{source_id}
ToggleAutoDownload ==
    \E k \in DOMAIN sources :
      /\ sources' = [sources EXCEPT ![k].auto_download = ~@]
      /\ UNCHANGED <<videos, fs, dl, qp, changed_count, global_auto_download>>
      /\ UNCHANGED cookieVars
      /\ UNCHANGED loopVars

\* POST /update_setting with key = "auto_download".
UpdateAutoDownloadSetting ==
    /\ global_auto_download' = ~global_auto_download
    /\ UNCHANGED <<videos, sources, fs, dl, qp, changed_count>>
    /\ UNCHANGED cookieVars
    /\ UNCHANGED loopVars

----------------------------------------------------------------------------
(***************************************************************************)
(* Library scan and the operator's handlers on one video.                  *)
(***************************************************************************)
\* not video.download_path or not os.path.exists(video.download_path)
PathMissing(r, disk) ==
    r.download_path = NoPath \/ ~FileExists(disk, r.download_path)

\* A flip that leaves `downloaded` set.
MarkMissingKeepsDownloaded(r) ==
    [r EXCEPT !.file_deleted = TRUE, !.skip = TRUE]

\* What one scan pass flips in a row.
MarkMissing(r) ==
    [r EXCEPT !.downloaded = FALSE, !.file_deleted = TRUE, !.skip = TRUE]

\* A pass that does not look at the disk: every downloaded row is flipped.
ScanApplyEveryDownloaded(vs, disk) ==
    [i \in DOMAIN vs |->
       IF vs[i].downloaded THEN MarkMissing(vs[i]) ELSE vs[i]]

\* The body of one pass of scan_library / scan_library_endpoint.
ScanApply(vs, disk) ==
    [i \in DOMAIN vs |->
       IF vs[i].downloaded /\ PathMissing(vs[i], disk)
       THEN MarkMissing(vs[i]) ELSE vs[i]]

ScanCount(vs, disk) ==
    Cardinality({i \in DOMAIN vs : vs[i].downloaded /\ PathMissing(vs[i], disk)})

\* Line 965: the test of `while library_scan_running`.
ScanCheck ==
    /\ scanner.pc = "top"
    /\ scanner' = [scanner EXCEPT !.pc = IF library_scan_running THEN "iter"
                                         ELSE "exited"]
    /\ UNCHANGED <<videos, sources, fs, dl, qp, changed_count,
                   global_auto_download>>
    /\ UNCHANGED <<download_queue_running, library_scan_running, settings,
                   poller, subfolders,
                   subfolder_response, refresh, resolver,
                   delete_result, adding>>
    /\ UNCHANGED cookieVars

\* One iteration of the scan_library thread whose scan_interval parses: the
\* pass, then the sleep of scan_interval seconds.
ScanLibraryPass ==
    /\ scanner.pc = "iter"
    /\ ParseInt(settings["scan_interval"]).ok
    /\ videos' = ScanApply(videos, fs)
    /\ changed_count' = ScanCount(videos, fs)
    /\ scanner' = LoopAsleep("interval", ParseInt(settings["scan_interval"]).n)
    /\ UNCHANGED <<sources, fs, dl, qp, global_auto_download>>
    /\ UNCHANGED <<download_queue_running, library_scan_running, settings,
                   poller, subfolders,
                   subfolder_response, refresh, resolver,
                   delete_result, adding>>
    /\ UNCHANGED cookieVars

\* One iteration whose int(get_setting("scan_interval")) raises: line 968
\* is the first of the try block, the except clause sleeps.
ScanConfigError ==
    /\ scanner.pc = "iter"
    /\ ~ParseInt(settings["scan_interval"]).ok
    /\ scanner' = LoopAsleep("error", ScanErrorSleep)
    /\ UNCHANGED <<videos, sources, fs, dl, qp, changed_count,
                   global_auto_download>>
    /\ UNCHANGED <<download_queue_running, library_scan_running, settings,
                   poller, subfolders,
                   subfolder_response, refresh, resolver,
                   delete_result, adding>>
    /\ UNCHANGED cookieVars

\* One iteration in which the store raises: nothing is committed.
ScanError ==
    /\ scanner.pc = "iter"
    /\ ParseInt(settings["scan_interval"]).ok
    /\ scanner' = LoopAsleep("error", ScanErrorSleep)
    /\ UNCHANGED <<videos, sources, fs, dl, qp, changed_count,
                   global_auto_download>>
    /\ UNCHANGED <<download_queue_running, library_scan_running, settings,
                   poller, subfolders,
                   subfolder_response, refresh, resolver,
                   delete_result, adding>>
    /\ UNCHANGED cookieVars

\* The sleep of scan_library is over (the flag staying set meanwhile).
ScanWake ==
    /\ scanner.pc = "sleep"
    /\ library_scan_running
    /\ scanner' = LoopAsleep("none", 0)
    /\ UNCHANGED <<videos, sources, fs, dl, qp, changed_count,
                   global_auto_download>>
    /\ UNCHANGED <<download_queue_running, library_scan_running, settings,
                   poller, subfolders,
                   subfolder_response, refresh, resolver,
                   delete_result, adding>>
    /\ UNCHANGED cookieVars

\* One second of a sleep of scan_library: the loop of lines 992-995 tests
\* library_scan_running before every second, time.sleep(60) of line 999
\* tests nothing.
ScanTick ==
    /\ scanner.pc = "sleep"
    /\ scanner' = IF scanner.wait = "interval" /\ ~library_scan_running
                  THEN LoopAsleep("none", 0)
                  ELSE LoopAsleep(scanner.wait, scanner.left - 1)
    /\ UNCHANGED <<videos, sources, fs, dl, qp, changed_count,
                   global_auto_download>>
    /\ UNCHANGED <<download_queue_running, library_scan_running, settings,
                   poller, subfolders,
                   subfolder_response, refresh, resolver,
                   delete_result, adding>>
    /\ UNCHANGED cookieVars

\* POST /scan_library
ScanLibraryEndpoint ==
    /\ videos' = ScanApply(videos, fs)
    /\ changed_count' = ScanCount(videos, fs)
    /\ UNCHANGED <<sources, fs, dl, qp, global_auto_download>>
    /\ UNCHANGED cookieVars
    /\ UNCHANGED loopVars

\* GET /download/{video_id} and GET /play/{video_id} on a video whose file
\* is gone.
ServeMissingFile ==
    \E v \in VideoIds :
      LET r == RowOf(videos, v) IN
        /\ r # 0
        /\ videos[r].downloaded /\ videos[r].download_path # NoPath
        /\ ~FileExists(fs, videos[r].download_path)
        /\ videos' = [videos EXCEPT ![r] = MarkMissing(@)]
        /\ UNCHANGED <<sources, fs, dl, qp, changed_count, global_auto_download>>
        /\ UNCHANGED cookieVars
        /\ UNCHANGED loopVars

\* POST /toggle_skip/{video_id}
ToggleSkip ==
    \E v \in VideoIds :
      LET r == RowOf(videos, v) IN
        /\ r # 0
        /\ videos' = [videos EXCEPT ![r].skip = ~@]
        /\ UNCHANGED <<sources, fs, dl, qp, changed_count, global_auto_download>>
        /\ UNCHANGED cookieVars
        /\ UNCHANGED loopVars

\* POST /reset_deleted_video/{video_id}
ResetDeletedVideo ==
    \E v \in VideoIds :
      LET r == RowOf(videos, v) IN
        /\ r # 0
        /\ videos[r].file_deleted
        /\ videos' = [videos EXCEPT ![r].file_deleted = FALSE, ![r].skip = FALSE]
        /\ UNCHANGED <<sources, fs, dl, qp, changed_count, global_auto_download>>
        /\ UNCHANGED cookieVars
        /\ UNCHANGED loopVars

\* POST /reset_failed_video/{video_id}
ResetFailedVideo ==
    \E v \in VideoIds :
      LET r == RowOf(videos, v) IN
        /\ r # 0
        /\ videos[r].failed_download
        /\ videos' = [videos EXCEPT ![r].failed_download = FALSE,
                                    ![r].error_message = 0]
        /\ UNCHANGED <<sources, fs, dl, qp, changed_count, global_auto_download>>
        /\ UNCHANGED cookieVars
        /\ UNCHANGED loopVars

\* shutil.rmtree(video_folder)
RemoveFolder(disk, path) == [p \in DOMAIN disk \ {path} |-> disk[p]]

\* delete_video_files(video_id) on a downloaded video whose id is in `ids`.
DeleteVideoFilesOf(ids) ==
    \E v \in ids :
      LET r == RowOf(videos, v) IN
        /\ r # 0
        /\ videos[r].downloaded
        /\ fs' = IF videos[r].download_path # NoPath
                    /\ FolderExists(fs, videos[r].download_path)
                 THEN RemoveFolder(fs, videos[r].download_path)
                 ELSE fs
        /\ videos' = [videos EXCEPT ![r] = MarkMissing(@)]
        /\ UNCHANGED <<sources, dl, qp, changed_count, global_auto_download>>
        /\ UNCHANGED cookieVars
        /\ UNCHANGED loopVars

\* POST /delete_video/{video_id}
DeleteVideoFiles == DeleteVideoFilesOf(VideoIds)

\* No delete_video_files call was made yet.  `n` alternates with every
\* call, so that a call is told from the one before it.
NoDeleteResult == [video_id |-> 0, success |-> FALSE, message |-> "none", n |-> 0]

\* A handler that marks the row although shutil.rmtree raised.
RowAfterRemovalAlwaysMarked(row, raised) == MarkMissing(row)

\* Lines 934-954: the flags are assigned and committed after shutil.rmtree
\* returned; when it raises the session is closed without a commit.
RowAfterRemoval(row, raised) == IF raised THEN row ELSE MarkMissing(row)

\* What shutil.rmtree can leave of a folder when it raises: all of it, or
\* the folder without the file.
PartlyRemoved(disk, path) == {disk, [disk EXCEPT ![path] = "nofile"]}

\* delete_video_files(video_id), every outcome, with what it returns.
DeleteVideoRequest ==
    \E v \in VideoIds, raised \in BOOLEAN :
      LET r == RowOf(videos, v)
          Return(ok, msg) ==
            delete_result' = [video_id |-> v, success |-> ok, message |-> msg,
                              n |-> 1 - delete_result.n]
      IN
        /\ IF r = 0
           THEN /\ Return(FALSE, "Video not found in database")
                /\ UNCHANGED <<videos, fs>>
           ELSE IF ~videos[r].downloaded
           THEN /\ Return(FALSE, "Video has not been downloaded")
                /\ UNCHANGED <<videos, fs>>
           ELSE IF \/ videos[r].download_path = NoPath
                   \/ ~FolderExists(fs, videos[r].download_path)
           THEN /\ Return(TRUE, "Video marked as deleted (files were already removed)")
                /\ videos' = [videos EXCEPT ![r] = MarkMissing(@)]
                /\ UNCHANGED fs
           ELSE /\ Return(~raised, IF raised THEN "Error"
                                   ELSE "Video files deleted successfully")
                /\ videos' = [videos EXCEPT ![r] = RowAfterRemoval(@, raised)]
                /\ fs' \in IF raised
                           THEN PartlyRemoved(fs, videos[r].download_path)
                           ELSE {RemoveFolder(fs, videos[r].download_path)}
        /\ UNCHANGED <<sources, dl, qp, changed_count, global_auto_download>>
        /\ UNCHANGED <<download_queue_running, library_scan_running, settings,
                       poller, scanner, subfolders, subfolder_response, refresh,
                       resolver, adding>>
        /\ UNCHANGED cookieVars

\* The place of a deleted row of `sources`.
DeletedSource ==
    [source_type |-> "deleted", source_id |-> 0, auto_download |-> FALSE,
     last_checked |-> UtcNow, subfolder_id |-> 0]

\* SQLite gives a new row the greatest rowid plus one: deleted rows at the
\* end of the table free their rowids.
RECURSIVE TrimVideos(_)
TrimVideos(vs) ==
    IF vs # <<>> /\ vs[Len(vs)] = DeletedVideo
    THEN TrimVideos(SubSeq(vs, 1, Len(vs) - 1))
    ELSE vs

RECURSIVE TrimSources(_)
TrimSources(ss) ==
    IF ss # <<>> /\ ss[Len(ss)] = DeletedSource
    THEN TrimSources(SubSeq(ss, 1, Len(ss) - 1))
    ELSE ss

\* delete_source with delete_videos set, lines 477-483: delete_video_files
\* on each downloaded video of source k with a path, rows i.. of `videos`.
RECURSIVE DeleteSourceFiles(_, _, _, _)
DeleteSourceFiles(disk, vs, k, i) ==
    IF i > Len(vs) THEN disk
    ELSE DeleteSourceFiles(
           IF /\ vs[i].source_id = k /\ vs[i].downloaded
              /\ vs[i].download_path # NoPath
              /\ FolderExists(disk, vs[i].download_path)
           THEN RemoveFolder(disk, vs[i].download_path)
           ELSE disk,
           vs, k, i + 1)

\* A delete without the cascade: the videos of the source stay.
CascadeDeleteKeepsVideos(vs, k) == vs

\* db.delete(source): the cascade deletes the videos of the source.
CascadeDelete(vs, k) ==
    TrimVideos([i \in DOMAIN vs |->
                  IF vs[i].source_id = k THEN DeletedVideo ELSE vs[i]])

\* DELETE /source/{source_id}
DeleteSource ==
    \E k \in DOMAIN sources, delete_videos \in BOOLEAN :
      /\ sources[k] # DeletedSource
      /\ fs' = IF delete_videos THEN DeleteSourceFiles(fs, videos, k, 1) ELSE fs
      /\ videos' = CascadeDelete(videos, k)
      /\ sources' = TrimSources([sources EXCEPT ![k] = DeletedSource])
      /\ UNCHANGED <<dl, qp, changed_count, global_auto_download>>
      /\ UNCHANGED cookieVars
      /\ UNCHANGED loopVars

\* Someone outside the program removes a video file, or its whole folder.
ExternalRemoveFile ==
    \E path \in DOMAIN fs :
      /\ \/ fs[path] # "nofile" /\ fs' = [fs EXCEPT ![path] = "nofile"]
         \/ fs' = RemoveFolder(fs, path)
      /\ UNCHANGED <<videos, sources, dl, qp, changed_count, global_auto_download>>
      /\ UNCHANGED cookieVars
      /\ UNCHANGED loopVars

----------------------------------------------------------------------------
(***************************************************************************)
(* download_video: one call per caller, each with its own session.         *)
(***************************************************************************)
\* "queue": the call made by process_download_queue; "manual": the
\* background task of POST /download_video/{video_id}.
Workers == {"queue", "queue2", "manual"}

NoResult == [success |-> FALSE, message |-> "none"]

\* The locals of one call: the loaded row (`snap`) and whether the session
\* has expired it, result.returncode (`rc`) and the stderr length.  `runs`
\* records the exit status of every run of the tool and `checked` what was
\* at the output path when line 346 looked.
IdleCall ==
    [pc |-> "idle", video_id |-> 0, row |-> 0, snap |-> NewVideo(0, 0, FALSE),
     expired |-> FALSE, runs |-> <<>>, rc |-> 0, stderr |-> 0,
     checked |-> "unchecked", result |-> NoResult]

\* Lengths of result.stderr.strip() the tool can leave on a failure.
StderrLens == {0, ErrCap + 1}

\* What one run of the acquisition tool can do: a non-zero exit, or exit 0
\* with the output file written in full, written too small, or not written.
ToolOutcomes ==
    [rc : {1}, file : {"keep"}, stderr : StderrLens]
      \cup [rc : {0}, file : {"keep", "small", "full"}, stderr : {0}]

\* The message stored without the cut at 500 characters.
ErrorMessageUncut(n) == IF n = 0 THEN UnknownErrorLen ELSE n

\* error_message[:500] if error_message else "Unknown error", as a length.
ErrorMessage(n) == IF n = 0 THEN UnknownErrorLen
                   ELSE IF n > ErrCap THEN ErrCap ELSE n

\* session.commit() of a loaded row: the UPDATE carries the columns whose
\* value differs from the loaded one; the other columns keep what the
\* table holds.
CommitRow(stored, loaded, new) ==
    [stored EXCEPT
       !.downloaded = IF new.downloaded # loaded.downloaded
                      THEN new.downloaded ELSE @,
       !.download_path = IF new.download_path # loaded.download_path
                         THEN new.download_path ELSE @,
       !.download_date = IF new.download_date # loaded.download_date
                         THEN new.download_date ELSE @,
       !.failed_download = IF new.failed_download # loaded.failed_download
                           THEN new.failed_download ELSE @,
       !.error_message = IF new.error_message # loaded.error_message
                         THEN new.error_message ELSE @]

\* What is at a path: "nofolder", or the folder's "nofile", "small", "full".
FileAt(disk, path) == IF path \in DOMAIN disk THEN disk[path] ELSE "nofolder"

\* The call has returned `res`: its session and locals are gone, the record
\* of the tool's runs stays.
Returned(c, res, at) ==
    [IdleCall EXCEPT !.pc = "done", !.video_id = c.video_id, !.row = c.row,
                     !.runs = c.runs, !.checked = at, !.result = res]

\* download_video without the exit for a video already downloaded: such a
\* call goes on to the tool.
DlBeginWithoutDownloadedExit(w) ==
    /\ dl[w].pc = "begin"
    /\ LET r == RowOf(videos, dl[w].video_id) IN
         IF r = 0
         THEN /\ dl' = [dl EXCEPT ![w] = Returned(@,
                          [success |-> FALSE,
                           message |-> "Video not found in database"],
                          "unchecked")]
              /\ UNCHANGED videos
         ELSE IF videos[r].failed_download
         THEN /\ videos' = [videos EXCEPT ![r].failed_download = FALSE,
                                          ![r].error_message = 0]
              /\ dl' = [dl EXCEPT ![w].pc = "prepare", ![w].row = r,
                          ![w].snap = videos'[r], ![w].expired = TRUE]
         ELSE /\ dl' = [dl EXCEPT ![w].pc = "prepare", ![w].row = r,
                          ![w].snap = videos[r], ![w].expired = FALSE]
              /\ UNCHANGED videos
    /\ UNCHANGED <<sources, fs, qp, changed_count, global_auto_download>>
    /\ UNCHANGED cookieVars
    /\ UNCHANGED loopVars

\* download_video without the reset of lines 236-239: a failed row stays
\* failed while the tool runs.
DlBeginKeepsFailed(w) ==
    /\ dl[w].pc = "begin"
    /\ LET r == RowOf(videos, dl[w].video_id) IN
         IF r = 0
         THEN /\ dl' = [dl EXCEPT ![w] = Returned(@,
                          [success |-> FALSE,
                           message |-> "Video not found in database"],
                          "unchecked")]
         ELSE IF videos[r].downloaded
         THEN /\ dl' = [dl EXCEPT ![w] = Returned(@,
                          [success |-> TRUE,
                           message |-> "Video already downloaded"],
                          "unchecked")]
         ELSE /\ dl' = [dl EXCEPT ![w].pc = "prepare", ![w].row = r,
                          ![w].snap = videos[r], ![w].expired = FALSE]
    /\ UNCHANGED <<videos, sources, fs, qp, changed_count, global_auto_download>>
    /\ UNCHANGED cookieVars
    /\ UNCHANGED loopVars

\* Lines 224-239: the lookup, the two early returns, and the reset of a
\* previous failure (its own commit, which expires the loaded row).
DlBegin(w) ==
    /\ dl[w].pc = "begin"
    /\ LET r == RowOf(videos, dl[w].video_id) IN
         IF r = 0
         THEN /\ dl' = [dl EXCEPT ![w] = Returned(@,
                          [success |-> FALSE,
                           message |-> "Video not found in database"],
                          "unchecked")]
              /\ UNCHANGED videos
         ELSE IF videos[r].downloaded
         THEN /\ dl' = [dl EXCEPT ![w] = Returned(@,
                          [success |-> TRUE,
                           message |-> "Video already downloaded"],
                          "unchecked")]
              /\ UNCHANGED videos
         ELSE IF videos[r].failed_download
         THEN /\ videos' = [videos EXCEPT ![r].failed_download = FALSE,
                                          ![r].error_message = 0]
              /\ dl' = [dl EXCEPT ![w].pc = "prepare", ![w].row = r,
                          ![w].snap = videos'[r], ![w].expired = TRUE]
         ELSE /\ dl' = [dl EXCEPT ![w].pc = "prepare", ![w].row = r,
                          ![w].snap = videos[r], ![w].expired = FALSE]
              /\ UNCHANGED videos
    /\ UNCHANGED <<sources, fs, qp, changed_count, global_auto_download>>
    /\ UNCHANGED cookieVars
    /\ UNCHANGED loopVars

\* os.makedirs(video_folder_path) and the removal of a file already at the
\* output path.
PrepareFolder(disk, path) ==
    [p \in DOMAIN disk \cup {path} |-> IF p = path THEN "nofile" ELSE disk[p]]

\* Lines 241-272: an expired row is reloaded on its first attribute access;
\* the output folder is made and a file at the output path is removed.
DlPrepare(w) ==
    /\ dl[w].pc = "prepare"
    /\ dl[w].expired => RowLive(videos, dl[w].row)
    /\ dl' = [dl EXCEPT ![w].pc = "attempt1", ![w].expired = FALSE,
                ![w].snap = IF dl[w].expired THEN videos[dl[w].row] ELSE @]
    /\ fs' = PrepareFolder(fs, OutputFile(dl[w].video_id))
    /\ UNCHANGED <<videos, sources, qp, changed_count, global_auto_download>>
    /\ UNCHANGED cookieVars
    /\ UNCHANGED loopVars

\* The file system after one run of the tool with output path `path`.
ToolWrites(disk, path, out) ==
    IF out.file = "keep" THEN disk
    ELSE [p \in DOMAIN disk \cup {path} |-> IF p = path THEN out.file ELSE disk[p]]

\* Line 308: the first run of the tool (primary format).
DlAttempt1(w) ==
    /\ dl[w].pc = "attempt1"
    /\ \E out \in ToolOutcomes :
         /\ fs' = ToolWrites(fs, OutputFile(dl[w].video_id), out)
         /\ dl' = [dl EXCEPT ![w].pc = IF out.rc # 0 THEN "attempt2" ELSE "finish",
                     ![w].runs = Append(@, out.rc),
                     ![w].rc = out.rc, ![w].stderr = out.stderr]
    /\ UNCHANGED <<videos, sources, qp, changed_count, global_auto_download>>
    /\ UNCHANGED cookieVars
    /\ UNCHANGED loopVars

\* A retry whose result is not assigned to `result`: the first run's exit
\* status and stderr decide the outcome.
DlAttempt2ResultDropped(w) ==
    /\ dl[w].pc = "attempt2"
    /\ \E out \in ToolOutcomes :
         /\ fs' = ToolWrites(fs, OutputFile(dl[w].video_id), out)
         /\ dl' = [dl EXCEPT ![w].pc = "finish",
                     ![w].runs = Append(@, out.rc)]
    /\ UNCHANGED <<videos, sources, qp, changed_count, global_auto_download>>
    /\ UNCHANGED cookieVars
    /\ UNCHANGED loopVars

\* Lines 311-332: the one retry with format "best".
DlAttempt2(w) ==
    /\ dl[w].pc = "attempt2"
    /\ \E out \in ToolOutcomes :
         /\ fs' = ToolWrites(fs, OutputFile(dl[w].video_id), out)
         /\ dl' = [dl EXCEPT ![w].pc = "finish",
                     ![w].runs = Append(@, out.rc), ![w].rc = out.rc,
                     ![w].stderr = out.stderr]
    /\ UNCHANGED <<videos, sources, qp, changed_count, global_auto_download>>
    /\ UNCHANGED cookieVars
    /\ UNCHANGED loopVars

\* The attribute values download_video assigns before its last commit.
FailedRow(loaded, msg) ==
    [loaded EXCEPT !.failed_download = TRUE, !.error_message = msg]

DownloadedRow(loaded, path) ==
    [loaded EXCEPT !.downloaded = TRUE, !.download_date = UtcNow,
                   !.download_path = path, !.failed_download = FALSE,
                   !.error_message = 0]

\* A recording that trusts the tool's exit status: no test of the output
\* file before the row is marked downloaded.
DlFinishTrustsExit(w) ==
    /\ dl[w].pc = "finish"
    /\ LET r == dl[w].row
           path == OutputFile(dl[w].video_id)
       IN
         IF dl[w].rc # 0
         THEN /\ videos' = [videos EXCEPT ![r] =
                   CommitRow(@, dl[w].snap,
                             FailedRow(dl[w].snap, ErrorMessage(dl[w].stderr)))]
              /\ dl' = [dl EXCEPT ![w] = Returned(@,
                          [success |-> FALSE, message |-> "yt-dlp error"],
                          "unchecked")]
         ELSE /\ videos' = [videos EXCEPT ![r] =
                   CommitRow(@, dl[w].snap, DownloadedRow(dl[w].snap, path))]
              /\ dl' = [dl EXCEPT ![w] = Returned(@,
                          [success |-> TRUE,
                           message |-> "Downloaded successfully"],
                          FileAt(fs, path))]
    /\ UNCHANGED <<sources, fs, qp, changed_count, global_auto_download>>
    /\ UNCHANGED cookieVars
    /\ UNCHANGED loopVars

\* Lines 334-415: the outcome is recorded in one commit.
DlFinish(w) ==
    /\ dl[w].pc = "finish"
    /\ RowLive(videos, dl[w].row)
    /\ LET r == dl[w].row
           path == OutputFile(dl[w].video_id)
       IN
         IF dl[w].rc # 0
         THEN /\ videos' = [videos EXCEPT ![r] =
                   CommitRow(@, dl[w].snap,
                             FailedRow(dl[w].snap, ErrorMessage(dl[w].stderr)))]
              /\ dl' = [dl EXCEPT ![w] = Returned(@,
                          [success |-> FALSE, message |-> "yt-dlp error"],
                          "unchecked")]
         ELSE IF ~FileExists(fs, path) \/ FileTooSmall(fs, path)
         THEN /\ videos' = [videos EXCEPT ![r] =
                   CommitRow(@, dl[w].snap, FailedRow(dl[w].snap, TooSmallLen))]
              /\ dl' = [dl EXCEPT ![w] = Returned(@,
                          [success |-> FALSE,
                           message |-> "Download failed or file too small"],
                          FileAt(fs, path))]
         ELSE /\ videos' = [videos EXCEPT ![r] =
                   CommitRow(@, dl[w].snap, DownloadedRow(dl[w].snap, path))]
              /\ dl' = [dl EXCEPT ![w] = Returned(@,
                          [success |-> TRUE,
                           message |-> "Downloaded successfully"],
                          FileAt(fs, path))]
    /\ UNCHANGED <<sources, fs, qp, changed_count, global_auto_download>>
    /\ UNCHANGED cookieVars
    /\ UNCHANGED loopVars

\* Lines 417-427: an exception inside the try block (the tool cannot be
\* launched, a side-car or the thumbnail step raises) is recorded as a
\* failure with str(e) cut at 500 characters.
DlRaise(w) ==
    /\ dl[w].pc \in {"attempt1", "attempt2", "finish"}
    /\ RowLive(videos, dl[w].row)
    /\ \E n \in StderrLens :
         videos' = [videos EXCEPT ![dl[w].row] =
                      CommitRow(@, dl[w].snap,
                                FailedRow(dl[w].snap, ErrorMessage(n)))]
    /\ dl' = [dl EXCEPT ![w] = Returned(@,
                [success |-> FALSE, message |-> "Exception"], "unchecked")]
    /\ UNCHANGED <<sources, fs, qp, changed_count, global_auto_download>>
    /\ UNCHANGED cookieVars
    /\ UNCHANGED loopVars

\* The row the call loaded was deleted meanwhile.  The refresh of the
\* expired row (line 245) raises; so does the commit of the outcome, whose
\* UPDATE matches no row, and the commit the except clause then tries
\* (line 424).  The exception leaves download_video; nothing is written.
DlStale(w) ==
    /\ \/ dl[w].pc = "prepare" /\ dl[w].expired
       \/ dl[w].pc = "finish"
    /\ ~RowLive(videos, dl[w].row)
    /\ dl' = [dl EXCEPT ![w] = Returned(@,
                [success |-> FALSE, message |-> "raised"], "unchecked")]
    /\ UNCHANGED <<videos, sources, fs, qp, changed_count, global_auto_download>>
    /\ UNCHANGED cookieVars
    /\ UNCHANGED loopVars

\* Lines 241-272 are outside the try block: an exception of os.makedirs or
\* os.remove (no permission, disk full, the path is a file) leaves
\* download_video with nothing recorded on the row.
DlPrepareRaise(w) ==
    /\ dl[w].pc = "prepare"
    /\ dl' = [dl EXCEPT ![w] = Returned(@,
                [success |-> FALSE, message |-> "raised"], "unchecked")]
    /\ UNCHANGED <<videos, sources, fs, qp, changed_count, global_auto_download>>
    /\ UNCHANGED cookieVars
    /\ UNCHANGED loopVars

\* POST /download_video/{video_id}: the background task starts.
TriggerDownload ==
    /\ dl["manual"].pc = "idle"
    /\ \E v \in VideoIds :
         dl' = [dl EXCEPT !["manual"] = [IdleCall EXCEPT !.pc = "begin",
                                                        !.video_id = v]]
    /\ UNCHANGED <<videos, sources, fs, qp, changed_count, global_auto_download>>
    /\ UNCHANGED cookieVars
    /\ UNCHANGED loopVars

\* The background task returns.
ManualReturn ==
    /\ dl["manual"].pc = "done"
    /\ dl' = [dl EXCEPT !["manual"] = IdleCall]
    /\ UNCHANGED <<videos, sources, fs, qp, changed_count, global_auto_download>>
    /\ UNCHANGED cookieVars
    /\ UNCHANGED loopVars

----------------------------------------------------------------------------
(***************************************************************************)
(* process_download_queue.                                                 *)
(***************************************************************************)
\* filter_by(downloaded=False, file_deleted=False, skip=False,
\*           failed_download=False)
Eligible(r) ==
    ~r.downloaded /\ ~r.file_deleted /\ ~r.skip /\ ~r.failed_download

\* session.query(Source.id).filter_by(auto_download=True)
AutoSourceIds(ss) == {k \in DOMAIN ss : ss[k].auto_download}

\* .first(): the matching row of least rowid, 0 if there is none.
First(S) == IF S = {} THEN 0 ELSE CHOOSE i \in S : \A j \in S : i <= j

\* A selection that does not filter on file_deleted.
SelectNextIgnoresFileDeleted(vs, ss) ==
    IF AutoSourceIds(ss) # {}
    THEN First({i \in DOMAIN vs :
                  /\ ~vs[i].downloaded /\ ~vs[i].skip /\ ~vs[i].failed_download
                  /\ vs[i].source_id \in AutoSourceIds(ss)})
    ELSE First({i \in DOMAIN vs :
                  /\ vs[i].source_id \in DOMAIN ss
                  /\ ss[vs[i].source_id].source_type = "video"
                  /\ ~vs[i].downloaded /\ ~vs[i].skip
                  /\ ~vs[i].failed_download})

\* A selection whose fallback branch does not filter on failed_download.
SelectNextFallbackKeepsFailed(vs, ss) ==
    IF AutoSourceIds(ss) # {}
    THEN First({i \in DOMAIN vs :
                  Eligible(vs[i]) /\ vs[i].source_id \in AutoSourceIds(ss)})
    ELSE First({i \in DOMAIN vs :
                  /\ vs[i].source_id \in DOMAIN ss
                  /\ ss[vs[i].source_id].source_type = "video"
                  /\ ~vs[i].downloaded /\ ~vs[i].file_deleted
                  /\ ~vs[i].skip})

\* A selection whose fallback branch does not join on the source type.
SelectNextFallbackAnySource(vs, ss) ==
    IF AutoSourceIds(ss) # {}
    THEN First({i \in DOMAIN vs :
                  Eligible(vs[i]) /\ vs[i].source_id \in AutoSourceIds(ss)})
    ELSE First({i \in DOMAIN vs : Eligible(vs[i])})

\* Lines 665-691: the row the queue processor picks, 0 if none.
SelectNext(vs, ss) ==
    IF AutoSourceIds(ss) # {}
    THEN First({i \in DOMAIN vs :
                  Eligible(vs[i]) /\ vs[i].source_id \in AutoSourceIds(ss)})
    ELSE First({i \in DOMAIN vs :
                  /\ vs[i].source_id \in DOMAIN ss
                  /\ ss[vs[i].source_id].source_type = "video"
                  /\ ~vs[i].downloaded /\ ~vs[i].file_deleted
                  /\ ~vs[i].skip /\ ~vs[i].failed_download})

\* The threads start_download_queue can have spawned.
QueueThreads == {"queue", "queue2"}

\* A thread of process_download_queue: where it is, which sleep it is in
\* and how many seconds of it are left, the download_delay it computed in
\* this iteration, and for how many seconds it has slept on after
\* download_queue_running was cleared (counted up to 2).
QueueThread(pc) ==
    [pc |-> pc, wait |-> "none", left |-> 0, delay |-> 0, overrun |-> 0]

Asleep(q, wait, secs) ==
    [q EXCEPT !.pc = IF secs > 0 THEN "sleep" ELSE "top",
              !.wait = IF secs > 0 THEN wait ELSE "none",
              !.left = secs, !.delay = 0]

\* A delay without the minimum of line 644.
EffectiveDelayNoMinimum(row) ==
    IF ~ParseInt(row).ok THEN DefaultDelay ELSE ParseInt(row).n

\* Lines 642-649: the delay of this iteration.
EffectiveDelay(row) ==
    IF ~ParseInt(row).ok THEN DefaultDelay
    ELSE IF ParseInt(row).n < MinDelay THEN MinDelay
    ELSE ParseInt(row).n

\* The sleeps that test download_queue_running before every second.
Checkpointed(wait) == wait \in {"delay", "noitem"}

\* Line 635: the test of `while download_queue_running`.
QueueCheck(t) ==
    /\ qp[t].pc = "top"
    /\ qp' = [qp EXCEPT ![t].pc = IF download_queue_running THEN "iter"
                                  ELSE "exited"]
    /\ UNCHANGED <<videos, sources, fs, dl, changed_count, global_auto_download>>
    /\ UNCHANGED cookieVars
    /\ UNCHANGED loopVars

\* A pass of the loop body without the test of line 652.
QueueSelectIgnoresSwitch(t) ==
    /\ qp[t].pc = "iter"
    /\ IF SelectNext(videos, sources) = 0
       THEN /\ qp' = [qp EXCEPT ![t] = Asleep(@, "noitem", NoItemSleep)]
            /\ UNCHANGED dl
       ELSE /\ qp' = [qp EXCEPT ![t].pc = "download",
                        ![t].delay = EffectiveDelay(settings["download_delay"])]
            /\ dl' = [dl EXCEPT ![t] =
                        [IdleCall EXCEPT !.pc = "begin",
                           !.video_id = videos[SelectNext(videos, sources)].video_id]]
    /\ UNCHANGED <<videos, sources, fs, changed_count, global_auto_download>>
    /\ UNCHANGED cookieVars
    /\ UNCHANGED loopVars

\* Lines 636-700: one pass of the loop body up to the call of
\* download_video, or to the sleep that ends the iteration.
QueueSelect(t) ==
    /\ qp[t].pc = "iter"
    /\ IF ~global_auto_download
       THEN /\ qp' = [qp EXCEPT ![t] = Asleep(@, "paused", PausedSleep)]
            /\ UNCHANGED dl
       ELSE IF SelectNext(videos, sources) = 0
       THEN /\ qp' = [qp EXCEPT ![t] = Asleep(@, "noitem", NoItemSleep)]
            /\ UNCHANGED dl
       ELSE /\ qp' = [qp EXCEPT ![t].pc = "download",
                        ![t].delay = EffectiveDelay(settings["download_delay"])]
            /\ dl' = [dl EXCEPT ![t] =
                        [IdleCall EXCEPT !.pc = "begin",
                           !.video_id = videos[SelectNext(videos, sources)].video_id]]
    /\ UNCHANGED <<videos, sources, fs, changed_count, global_auto_download>>
    /\ UNCHANGED cookieVars
    /\ UNCHANGED loopVars

\* download_video returned: the outcome is logged, the delay begins; an
\* exception it raised goes to the except clause of lines 719-722.
QueueDownloadReturn(t) ==
    /\ qp[t].pc = "download"
    /\ dl[t].pc = "done"
    /\ qp' = [qp EXCEPT ![t] =
                IF dl[t].result.message = "raised"
                THEN Asleep(@, "error", QueueErrorSleep)
                ELSE Asleep(@, "delay", qp[t].delay)]
    /\ dl' = [dl EXCEPT ![t] = IdleCall]
    /\ UNCHANGED <<videos, sources, fs, changed_count, global_auto_download>>
    /\ UNCHANGED cookieVars
    /\ UNCHANGED loopVars

\* One second of a sleep: a checkpointed sleep tests the flag first and
\* breaks when it is cleared; time.sleep(10) runs on.
QueueTick(t) ==
    /\ qp[t].pc = "sleep"
    /\ IF Checkpointed(qp[t].wait) /\ ~download_queue_running
       THEN qp' = [qp EXCEPT ![t] = Asleep(@, "none", 0)]
       ELSE qp' = [qp EXCEPT ![t] =
                     [Asleep(@, qp[t].wait, qp[t].left - 1) EXCEPT
                        !.overrun = IF download_queue_running THEN 0
                                    ELSE IF @ < 2 THEN @ + 1 ELSE @]]
    /\ UNCHANGED <<videos, sources, fs, dl, changed_count, global_auto_download>>
    /\ UNCHANGED cookieVars
    /\ UNCHANGED loopVars

\* The sleep of the iteration is over (the flag staying set meanwhile).
QueueWake(t) ==
    /\ qp[t].pc = "sleep"
    /\ download_queue_running
    /\ qp' = [qp EXCEPT ![t] = Asleep(@, "none", 0)]
    /\ UNCHANGED <<videos, sources, fs, dl, changed_count, global_auto_download>>
    /\ UNCHANGED cookieVars
    /\ UNCHANGED loopVars

\* An exception handler that lets the exception end the thread.
QueueErrorTerminates(t) ==
    /\ qp[t].pc = "iter"
    /\ qp' = [qp EXCEPT ![t] = QueueThread("exited")]
    /\ UNCHANGED <<videos, sources, fs, dl, changed_count, global_auto_download>>
    /\ UNCHANGED cookieVars
    /\ UNCHANGED loopVars

\* Lines 719-722: an exception in the iteration (the store fails, a setting
\* row is missing) is caught and followed by time.sleep(10).
QueueError(t) ==
    /\ qp[t].pc = "iter"
    /\ qp' = [qp EXCEPT ![t] = Asleep(@, "error", QueueErrorSleep)]
    /\ UNCHANGED <<videos, sources, fs, dl, changed_count, global_auto_download>>
    /\ UNCHANGED cookieVars
    /\ UNCHANGED loopVars

\* The thread a start spawns: the first that is not alive.
FreeThread ==
    IF qp["queue"].pc \in {"unstarted", "exited"} THEN "queue" ELSE "queue2"

\* A start that spawns a thread without the test of line 730.
StartDownloadQueueUnguarded ==
    /\ qp[FreeThread].pc \in {"unstarted", "exited"}
    /\ download_queue_running' = TRUE
    /\ qp' = [qp EXCEPT ![FreeThread] = QueueThread("top")]
    /\ UNCHANGED <<videos, sources, fs, dl, changed_count, global_auto_download>>
    /\ UNCHANGED <<library_scan_running, settings, poller, scanner, subfolders,
                   subfolder_response, refresh, resolver,
                   delete_result, adding>>
    /\ UNCHANGED cookieVars

\* start_download_queue(): at import time, at startup, or by hand.
StartDownloadQueue ==
    /\ IF download_queue_running
       THEN UNCHANGED <<download_queue_running, qp>>
       ELSE /\ qp[FreeThread].pc \in {"unstarted", "exited"}
            /\ download_queue_running' = TRUE
            /\ qp' = [qp EXCEPT ![FreeThread] = QueueThread("top")]
    /\ UNCHANGED <<videos, sources, fs, dl, changed_count, global_auto_download>>
    /\ UNCHANGED <<library_scan_running, settings, poller, scanner, subfolders,
                   subfolder_response, refresh, resolver,
                   delete_result, adding>>
    /\ UNCHANGED cookieVars

\* stop_download_queue()
StopDownloadQueue ==
    /\ download_queue_running' = FALSE
    /\ qp' = IF download_queue_running
             THEN [t \in QueueThreads |-> [qp[t] EXCEPT !.overrun = 0]]
             ELSE qp
    /\ UNCHANGED <<videos, sources, fs, dl, changed_count, global_auto_download>>
    /\ UNCHANGED <<library_scan_running, settings, poller, scanner, subfolders,
                   subfolder_response, refresh, resolver,
                   delete_result, adding>>
    /\ UNCHANGED cookieVars

\* shutdown_event: stop_download_queue() and stop_library_scanner().
ShutdownEvent ==
    /\ download_queue_running' = FALSE
    /\ library_scan_running' = FALSE
    /\ qp' = IF download_queue_running
             THEN [t \in QueueThreads |-> [qp[t] EXCEPT !.overrun = 0]]
             ELSE qp
    /\ UNCHANGED <<videos, sources, fs, dl, changed_count, global_auto_download>>
    /\ UNCHANGED <<settings, poller, scanner, subfolders, subfolder_response, refresh, resolver,
                   delete_result, adding>>
    /\ UNCHANGED cookieVars

\* The state after import of ytdlp_utils and main, and startup: the tables
\* as initialize_settings leaves them, one queue thread started.
CatalogInit ==
    /\ videos = <<>>
    /\ sources = <<>>
    /\ fs = <<>>
    /\ dl = [w \in Workers |-> IdleCall]
    /\ qp = [t \in QueueThreads |->
               IF t = "queue" THEN QueueThread("top") ELSE QueueThread("unstarted")]
    /\ changed_count = 0
    /\ global_auto_download = TRUE
    /\ download_queue_running = TRUE
    /\ library_scan_running = TRUE
    /\ settings = [key \in NumericKeys |->
                     [present |-> TRUE, value |-> DefaultSettingText(key)]]
    /\ poller = [pc |-> "top", wait |-> "none", left |-> 0]
    /\ scanner = [pc |-> "top", wait |-> "none", left |-> 0]
    /\ subfolders = <<[id |-> 1, name |-> DefaultName, is_default |-> TRUE]>>
    /\ subfolder_response = NoResponse
    /\ refresh = NoRefresh
    /\ resolver = NoResolverCall
    /\ delete_result = NoDeleteResult
    /\ adding = NoAddSource

\* The rowid SQLite gives the next row of `subfolders`.
NextSubfolderId(sfs) ==
    IF sfs = <<>> THEN 1
    ELSE 1 + CHOOSE m \in {sfs[i].id : i \in DOMAIN sfs} :
                 \A i \in DOMAIN sfs : sfs[i].id <= m

\* initialize_settings, lines 136-147: a default subfolder is made when no
\* row has is_default set.
EnsureDefaultSubfolder(sfs) ==
    IF \E i \in DOMAIN sfs : sfs[i].is_default THEN sfs
    ELSE Append(sfs, [id |-> NextSubfolderId(sfs), name |-> DefaultName,
                      is_default |-> TRUE])

\* initialize_settings, lines 117-134: a default row is added for each
\* missing key; rows that exist keep their value.
EnsureDefaultSettings(st) ==
    [key \in DOMAIN st |->
       IF st[key].present THEN st[key]
       ELSE [present |-> TRUE, value |-> DefaultSettingText(key)]]

\* The process is killed while a download_video call is in flight and is
\* started again: threads, sessions and module globals are gone, what was
\* committed to the database and what is on disk stay; a tool killed while
\* running may have left its output file in any state.  Import and startup
\* then run as at first.
CrashRestart ==
    /\ \E w \in Workers : dl[w].pc # "idle"
    /\ \E w \in Workers, left \in {"keep", "small", "full"} :
         /\ dl[w].pc # "idle"
         /\ fs' = IF dl[w].pc \in {"attempt1", "attempt2"}
                  THEN ToolWrites(fs, OutputFile(dl[w].video_id),
                                  [rc |-> 1, file |-> left, stderr |-> 0])
                  ELSE fs
    /\ dl' = [w \in Workers |-> IdleCall]
    /\ qp' = [t \in QueueThreads |->
                IF t = "queue" THEN QueueThread("top") ELSE QueueThread("unstarted")]
    /\ download_queue_running' = TRUE
    /\ library_scan_running' = TRUE
    /\ poller' = [pc |-> "top", wait |-> "none", left |-> 0]
    /\ scanner' = [pc |-> "top", wait |-> "none", left |-> 0]
    /\ settings' = EnsureDefaultSettings(settings)
    /\ subfolders' = EnsureDefaultSubfolder(subfolders)
    /\ UNCHANGED subfolder_response
    /\ refresh' = NoRefresh
    /\ UNCHANGED resolver
    /\ UNCHANGED delete_result
    /\ adding' = NoAddSource
    /\ GLOBAL_COOKIE_FILE' = "None"
    /\ COOKIE_TIMESTAMP' = 0
    /\ cookie_result' = "not_called"
    /\ cookie_op' = "restart"
    /\ UNCHANGED <<videos, sources, changed_count, global_auto_download>>
    /\ UNCHANGED <<cookie_setting, cookie_disk>>

----------------------------------------------------------------------------
(***************************************************************************)
(* Subfolders.  The handlers are coroutines without an await: each runs    *)
(* to its end on the event loop before another starts.                     *)
(***************************************************************************)
SubfolderIds == 1..MaxSubfolders

SubfolderNames == 1..MaxSubfolders

\* session.query(Subfolder).filter_by(id=k).first(), as a row number.
SubfolderRow(sfs, k) ==
    IF \E i \in DOMAIN sfs : sfs[i].id = k
    THEN CHOOSE i \in DOMAIN sfs : sfs[i].id = k
    ELSE 0

\* current_default.is_default = False on the first row that has the flag.
UnsetCurrentDefault(sfs) ==
    IF FirstDefault(sfs) = 0 THEN sfs
    ELSE [sfs EXCEPT ![FirstDefault(sfs)].is_default = FALSE]

\* db.delete(subfolder)
WithoutRow(sfs, i) ==
    [j \in 1..(Len(sfs) - 1) |-> IF j < i THEN sfs[j] ELSE sfs[j + 1]]

\* What the subfolder handlers leave alone.
subfolderFrame == <<videos, fs, dl, qp, changed_count, global_auto_download,
                    download_queue_running, library_scan_running, settings,
                    poller, scanner, refresh, resolver,
                   delete_result, adding>>

\* An add with is_default set that leaves the current default as it is.
AddSubfolderKeepsDefault ==
    \E name \in SubfolderNames, is_default \in BOOLEAN :
      /\ IF \E i \in DOMAIN subfolders : subfolders[i].name = name
         THEN /\ subfolder_response' = [op |-> "add", id |-> 0, status |-> 400]
              /\ UNCHANGED subfolders
         ELSE /\ NextSubfolderId(subfolders) <= MaxSubfolders
              /\ subfolders' = Append(subfolders,
                     [id |-> NextSubfolderId(subfolders), name |-> name,
                      is_default |-> is_default])
              /\ subfolder_response' =
                     [op |-> "add", id |-> NextSubfolderId(subfolders),
                      status |-> 303]
      /\ UNCHANGED sources
      /\ UNCHANGED subfolderFrame
      /\ UNCHANGED cookieVars

\* POST /add_subfolder
AddSubfolder ==
    \E name \in SubfolderNames, is_default \in BOOLEAN :
      /\ IF \E i \in DOMAIN subfolders : subfolders[i].name = name
         THEN /\ subfolder_response' = [op |-> "add", id |-> 0, status |-> 400]
              /\ UNCHANGED subfolders
         ELSE /\ NextSubfolderId(subfolders) <= MaxSubfolders
              /\ subfolders' = Append(
                     IF is_default THEN UnsetCurrentDefault(subfolders)
                     ELSE subfolders,
                     [id |-> NextSubfolderId(subfolders), name |-> name,
                      is_default |-> is_default])
              /\ subfolder_response' =
                     [op |-> "add", id |-> NextSubfolderId(subfolders),
                      status |-> 303]
      /\ UNCHANGED sources
      /\ UNCHANGED subfolderFrame
      /\ UNCHANGED cookieVars

\* DELETE /subfolder/{subfolder_id}
DeleteSubfolder ==
    \E k \in SubfolderIds :
      LET i == SubfolderRow(subfolders, k) IN
        /\ IF i = 0
           THEN /\ subfolder_response' = [op |-> "delete", id |-> k, status |-> 404]
                /\ UNCHANGED <<subfolders, sources>>
           ELSE IF subfolders[i].is_default
           THEN /\ subfolder_response' = [op |-> "delete", id |-> k, status |-> 400]
                /\ UNCHANGED <<subfolders, sources>>
           ELSE /\ sources' =
                     IF FirstDefault(subfolders) = 0 THEN sources
                     ELSE [s \in DOMAIN sources |->
                             IF sources[s].subfolder_id = k
                             THEN [sources[s] EXCEPT !.subfolder_id =
                                     DefaultSubfolderId(subfolders)]
                             ELSE sources[s]]
                /\ subfolders' = WithoutRow(subfolders, i)
                /\ subfolder_response' = [op |-> "delete", id |-> k, status |-> 200]
        /\ UNCHANGED subfolderFrame
        /\ UNCHANGED cookieVars

\* POST /set_default_subfolder/{subfolder_id}
SetDefaultSubfolder ==
    \E k \in SubfolderIds :
      LET i == SubfolderRow(subfolders, k) IN
        /\ IF i = 0
           THEN /\ subfolder_response' =
                     [op |-> "set_default", id |-> k, status |-> 404]
                /\ UNCHANGED subfolders
           ELSE /\ subfolders' =
                     [UnsetCurrentDefault(subfolders) EXCEPT ![i].is_default = TRUE]
                /\ subfolder_response' =
                     [op |-> "set_default", id |-> k, status |-> 303]
        /\ UNCHANGED sources
        /\ UNCHANGED subfolderFrame
        /\ UNCHANGED cookieVars

----------------------------------------------------------------------------
Init == CookieInit /\ CatalogInit

NextCookie ==
    \/ UpdateCookieSetting
    \/ ClearYoutubeCookies
    \/ GetCookieFile
    \/ RestartProcess
    \/ ExternalRemoveCookieFile

\* The credential cache alone.
SpecCookie == Init /\ [][NextCookie]_vars

Download(w) ==
    \/ DlBegin(w)
    \/ DlPrepare(w)
    \/ DlAttempt1(w)
    \/ DlAttempt2(w)
    \/ DlFinish(w)
    \/ DlRaise(w)

\* The thread of process_download_queue with the download_video it calls.
QueueProcessor ==
    \E t \in QueueThreads :
      \/ QueueCheck(t)
      \/ QueueSelect(t)
      \/ QueueDownloadReturn(t)
      \/ QueueWake(t)
      \/ Download(t)

\* The same thread with its sleeps taken one second at a time, and the
\* exception handler of lines 719-722.
QueueProcessorBySeconds ==
    \E t \in QueueThreads :
      \/ QueueCheck(t)
      \/ QueueSelect(t)
      \/ QueueDownloadReturn(t)
      \/ QueueTick(t)
      \/ QueueError(t)
      \/ Download(t)

\* The thread of process_download_queue with its exception handler.
QueueProcessorWithErrors ==
    \/ QueueProcessor
    \/ \E t \in QueueThreads : QueueError(t)

\* The thread of scan_library.
LibraryScanner ==
    \/ ScanCheck
    \/ ScanLibraryPass
    \/ ScanConfigError
    \/ ScanError
    \/ ScanWake

\* The thread of background_checker.
SourcePoller ==
    \/ PollerPass
    \/ PollerConfigError
    \/ PollerError
    \/ PollerWake

\* The end of a download_video call whose row was deleted under it.
DownloadOfDeleted ==
    \E w \in Workers : DlStale(w)

\* os.makedirs or os.remove raises in a download_video the queue called.
PrepareFails ==
    \E t \in QueueThreads : DlPrepareRaise(t)

\* An on-demand download_video, from the request to its return.
ManualDownload ==
    \/ TriggerDownload
    \/ ManualReturn
    \/ Download("manual")

\* Registration and the poller, the operator switching auto_download of
\* sources.
NextPoll ==
    \/ AddVideoSource(VideoIds)
    \/ AddCollectionSource
    \/ RefreshSources
    \/ ToggleAutoDownload

SpecPoll == Init /\ [][NextPoll]_vars

\* One refresh_sources call after the other, step by step, while sources
\* are registered.
NextPass ==
    \/ AddVideoSource(VideoIds)
    \/ AddCollectionSource
    \/ RefreshBegin
    \/ RefreshOne
    \/ RefreshRaise
    \/ RefreshCommit

SpecPass == Init /\ [][NextPass]_vars

\* Calls of the resolver functions with every outcome of the tool.
NextResolver ==
    \/ GetCollectionVideos
    \/ GetVideoInfo
    \/ ResolverDone

SpecResolver == Init /\ [][NextResolver]_vars

\* The video ids registered where acquisitions interleave step by step.
RaceIds == 1..MaxRaceVideos

\* The queue processor and an on-demand download running concurrently, with
\* the operator's resets and the removal of files.
Next ==
    \/ AddVideoSource(RaceIds)
    \/ QueueProcessor
    \/ ManualDownload
    \/ ResetFailedVideo
    \/ DeleteVideoFiles
    \/ ResetDeletedVideo

Spec == Init /\ [][Next]_vars

\* Acquisitions one at a time (the queue processor's, or an on-demand one
\* requested while the queue processor is between downloads), with the
\* library scan, files removed behind the program's back and the operator's
\* handlers.
NextSerial ==
    \/ AddVideoSource(RaceIds)
    \/ dl["manual"].pc = "idle" /\ QueueProcessor
    \/ (\A t \in QueueThreads : dl[t].pc = "idle") /\ ManualDownload
    \/ ScanCheck
    \/ ScanLibraryPass
    \/ ScanWake
    \/ ScanLibraryEndpoint
    \/ ServeMissingFile
    \/ ExternalRemoveFile
    \/ DeleteVideoFiles
    \/ ResetDeletedVideo
    \/ ResetFailedVideo
    \/ ToggleSkip

SpecSerial == Init /\ [][NextSerial]_vars

\* The library scan over a catalog the queue processor fills, with files
\* removed behind the program's back and by delete_video_files.
NextScan ==
    \/ AddVideoSource(VideoIds)
    \/ QueueProcessor
    \/ ScanCheck
    \/ ScanLibraryPass
    \/ ScanWake
    \/ ScanLibraryEndpoint
    \/ ServeMissingFile
    \/ ExternalRemoveFile
    \/ DeleteVideoFiles
    \/ ResetDeletedVideo

SpecScan == Init /\ [][NextScan]_vars

\* The scanner demoting what the queue processor downloaded, and the
\* operator's resets and toggle_skip; no on-demand download.
NextReset ==
    \/ AddVideoSource(RaceIds)
    \/ QueueProcessor
    \/ ScanCheck
    \/ ScanLibraryPass
    \/ ScanWake
    \/ ExternalRemoveFile
    \/ ResetDeletedVideo
    \/ ResetFailedVideo
    \/ ToggleSkip

SpecReset == Init /\ [][NextReset]_vars

\* The queue processor started at import, with start_download_queue called
\* again (startup, or by hand) and never stopped.
NextStart ==
    \/ AddVideoSource(VideoIds)
    \/ QueueProcessor
    \/ StartDownloadQueue

SpecStart == Init /\ [][NextStart]_vars

\* Sources registered and deleted while the queue processor acquires.
RegisterVideoSource ==
    AddVideoSource(VideoIds) /\ Len(sources') <= MaxRowid

NextDelete ==
    \/ RegisterVideoSource
    \/ QueueProcessor
    \/ DownloadOfDeleted
    \/ DeleteSource

SpecDelete == Init /\ [][NextDelete]_vars

\* Video sources with and without auto_download, and the queue processor,
\* whose thread is scheduled again and again.
NextPrefer ==
    \/ AddVideoSource(VideoIds)
    \/ QueueProcessor

SpecPrefer == Init /\ [][NextPrefer]_vars /\ WF_vars(QueueProcessor)

\* The queue processor with every way a download_video call can end.
NextProgress ==
    \/ AddVideoSource(VideoIds)
    \/ QueueProcessor
    \/ PrepareFails

SpecProgress == Init /\ [][NextProgress]_vars

\* The queue processor second by second, with every way a download_video
\* call can end.
NextRate ==
    \/ AddVideoSource(VideoIds)
    \/ QueueProcessorBySeconds
    \/ PrepareFails

SpecRate == Init /\ [][NextRate]_vars

\* The subfolder handlers and the registration of sources.
NextSubfolders ==
    \/ AddVideoSource(VideoIds)
    \/ AddSubfolder
    \/ DeleteSubfolder
    \/ SetDefaultSubfolder

SpecSubfolders == Init /\ [][NextSubfolders]_vars

\* The three loop threads with their exception handlers, rows of
\* `settings` removed by hand and files removed behind the program's back.
NextLoops ==
    \/ AddVideoSource(RaceIds)
    \/ QueueProcessorWithErrors
    \/ LibraryScanner
    \/ SourcePoller
    \/ RemoveSettingRow
    \/ ExternalRemoveFile

SpecLoops == Init /\ [][NextLoops]_vars

\* At most one numeric setting is off the value initialize_settings gave it.
OneSettingEdited(st) ==
    Cardinality({key \in NumericKeys :
                   st[key] # [present |-> TRUE,
                              value |-> DefaultSettingText(key)]}) <= 1

UpdateOneSetting == UpdateNumericSetting /\ OneSettingEdited(settings')

RemoveOneSettingRow == RemoveSettingRow /\ OneSettingEdited(settings')

\* The three loop threads with one numeric setting edited through
\* POST /update_setting or removed, and no exception from the store.
NextConfig ==
    \/ AddVideoSource(RaceIds)
    \/ QueueProcessor
    \/ ScanCheck
    \/ ScanLibraryPass
    \/ ScanConfigError
    \/ ScanWake
    \/ PollerPass
    \/ PollerConfigError
    \/ PollerWake
    \/ UpdateOneSetting
    \/ RemoveOneSettingRow

SpecConfig == Init /\ [][NextConfig]_vars

\* A pass of a loop whose interval is short enough to follow its sleep
\* second by second.
ScanShortPass ==
    ScanLibraryPass /\ ParseInt(settings["scan_interval"]).n <= MaxInterval

PollerShortPass ==
    PollerPass /\ ParseInt(settings["check_interval"]).n <= MaxInterval

\* The poller and the scanner second by second, with their exception
\* handlers, one interval shortened by the operator, and the shutdown.
NextShutdown ==
    \/ UpdateOneSetting
    \/ ScanCheck
    \/ ScanShortPass
    \/ ScanConfigError
    \/ ScanError
    \/ ScanTick
    \/ PollerShortPass
    \/ PollerConfigError
    \/ PollerError
    \/ PollerTick
    \/ ShutdownEvent

SpecShutdown == Init /\ [][NextShutdown]_vars

\* The queue processor second by second, with stop_download_queue and
\* start_download_queue called at any time.
NextRestart ==
    \/ AddVideoSource(RaceIds)
    \/ QueueProcessorBySeconds
    \/ StopDownloadQueue
    \/ StartDownloadQueue

SpecRestart == Init /\ [][NextRestart]_vars

\* Two videos whose titles differ and whose sanitized titles are equal.
CollidingIds == {1, 3}

\* The queue processor acquiring videos of equal sanitized title, and
\* delete_video_files on them.
NextCollide ==
    \/ AddVideoSource(CollidingIds)
    \/ QueueProcessor
    \/ DeleteVideoFilesOf(CollidingIds)

SpecCollide == Init /\ [][NextCollide]_vars

\* The queue processor over videos and collections registered with and
\* without auto_download; between two download_video calls the operator
\* registers sources and switches the sources' flag and the videos' skip
\* flag.
RegisterForQueue ==
    /\ AddVideoSource(RaceIds) \/ AddCollectionSource
    /\ Len(sources') <= MaxQueueSources

NextAuto ==
    \/ (\A t \in QueueThreads : dl[t].pc = "idle") /\ RegisterForQueue
    \/ (\A t \in QueueThreads : dl[t].pc = "idle") /\ ToggleAutoDownload
    \/ (\A t \in QueueThreads : dl[t].pc = "idle") /\ ToggleSkip
    \/ QueueProcessor

SpecAuto == Init /\ [][NextAuto]_vars

\* A refresh_sources call step by step (POST /refresh_sources) while the
\* pass of background_checker and add_source run and commit between its
\* steps.
NextRace ==
    \/ AddCollectionSource
    \/ RefreshSources
    \/ RefreshBegin
    \/ RefreshOne
    \/ RefreshCommit

SpecRace == Init /\ [][NextRace]_vars

\* delete_video_files with every outcome, on videos the queue processor
\* acquires and whose files are also removed behind the program's back.
NextRemove ==
    \/ AddVideoSource(VideoIds)
    \/ QueueProcessor
    \/ ExternalRemoveFile
    \/ DeleteVideoRequest

SpecRemove == Init /\ [][NextRemove]_vars

\* An add_source call step by step, while other add_source calls commit
\* between its steps, up to MaxQueueSources sources.
NextEnqueue ==
    \/ AddSourceBegin
    \/ AddSourceWrite /\ Len(sources') <= MaxQueueSources
    \/ AddSourceRaise
    \/ /\ adding.pc = "resolved"
       /\ AddCollectionSource
       /\ Len(sources') <= MaxQueueSources

SpecEnqueue == Init /\ [][NextEnqueue]_vars

\* Acquisitions by the queue processor, the process being killed and
\* started again at any point of one.
NextCrash ==
    \/ AddVideoSource(VideoIds)
    \/ QueueProcessor
    \/ CrashRestart

SpecCrash == Init /\ [][NextCrash]_vars

\* The queue processor second by second, the global switch and
\* stop_download_queue.
NextStop ==
    \/ AddVideoSource(RaceIds)
    \/ UpdateAutoDownloadSetting
    \/ QueueProcessorBySeconds
    \/ StopDownloadQueue

SpecStop == Init /\ [][NextStop]_vars

\* The queue processor over a catalog of single videos whose flags and
\* sources' flags the operator changes.
NextQueue ==
    \/ AddVideoSource(VideoIds)
    \/ ToggleAutoDownload
    \/ UpdateAutoDownloadSetting
    \/ ToggleSkip
    \/ DeleteVideoFiles
    \/ QueueProcessor

SpecQueue == Init /\ [][NextQueue]_vars

----------------------------------------------------------------------------
(***************************************************************************)
(* Claims.                                                                 *)
(***************************************************************************)
\* C1: in every reachable state no row of `videos` has downloaded and
\* file_deleted both true (acquisitions, on-demand ones of a row marked
\* file_deleted included, the library scan, delete_video_files, the resets
\* and toggle_skip).
C1_NeverAcquiredAndMissing ==
    \A i \in DOMAIN videos : ~(videos[i].downloaded /\ videos[i].file_deleted)

\* C2: in every reachable state no row of `videos` has downloaded and
\* failed_download both true, the queue processor's download_video and an
\* on-demand one of the same video interleaving in any order.
C2_NeverAcquiredAndFailed ==
    \A i \in DOMAIN videos : ~(videos[i].downloaded /\ videos[i].failed_download)

\* C3: a download_video call that finds its video already downloaded
\* returns at once with success, has run the tool zero times, touches no
\* file and leaves the table `videos` as it is.
C3_AcquireIdempotent ==
    [][\A w \in Workers :
         (/\ dl[w].pc = "begin"
          /\ dl'[w] # dl[w]
          /\ RowOf(videos, dl[w].video_id) # 0
          /\ videos[RowOf(videos, dl[w].video_id)].downloaded)
         => /\ dl'[w].pc = "done"
            /\ dl'[w].result.success
            /\ dl'[w].runs = <<>>
            /\ fs' = fs
            /\ videos' = videos]_vars

\* A call has returned through the already-downloaded exit.
C3_Witness ==
    \E w \in Workers :
      /\ dl[w].pc = "done"
      /\ dl[w].result = [success |-> TRUE, message |-> "Video already downloaded"]
      /\ videos[RowOf(videos, dl[w].video_id)].download_path # NoPath

\* C10: when the first run of the tool exits non-zero and the retry exits 0
\* with a file of plausible size at the output path, the commit that ends
\* the call leaves the row downloaded, not failed, without error message and
\* with the output path recorded (acquisitions one at a time, no exception
\* raised between the retry and the commit).
C10_FallbackSucceeds ==
    [][\A w \in Workers :
         (/\ dl[w].pc = "finish"
          /\ dl'[w].pc = "done"
          /\ dl'[w].result.message # "Exception"
          /\ Len(dl[w].runs) = 2
          /\ dl[w].runs[1] # 0
          /\ dl[w].runs[2] = 0
          /\ FileAt(fs, OutputFile(dl[w].video_id)) = "full")
         => LET r == videos'[dl[w].row] IN
              /\ r.downloaded
              /\ ~r.failed_download
              /\ r.error_message = 0
              /\ r.download_path = OutputFile(dl[w].video_id)
              /\ dl'[w].result.success]_vars

\* A call has returned after a failed first run and a successful retry.
C10_Witness ==
    \E w \in Workers :
      /\ dl[w].pc = "done"
      /\ dl[w].runs = <<1, 0>>
      /\ dl[w].checked = "full"
      /\ dl[w].result.success

\* C11: when both runs of the tool exit non-zero, the commit that ends the
\* call leaves the row failed, not downloaded, with an error message of 1 to
\* 500 characters, and the call returns failure; no call runs the tool
\* more than twice (acquisitions one at a time).
C11_BothAttemptsFail ==
    [][\A w \in Workers :
         /\ Len(dl'[w].runs) <= 2
         /\ (/\ dl[w].pc = "finish"
             /\ dl'[w].pc = "done"
             /\ Len(dl[w].runs) = 2
             /\ dl[w].runs[1] # 0
             /\ dl[w].runs[2] # 0)
            => LET r == videos'[dl[w].row] IN
                 /\ r.failed_download
                 /\ ~r.downloaded
                 /\ r.error_message >= 1
                 /\ r.error_message <= ErrCap
                 /\ ~dl'[w].result.success]_vars

\* A call has returned after two failed runs whose error text was longer
\* than the cap.
C11_Witness ==
    \E w \in Workers :
      /\ dl[w].pc = "done"
      /\ dl[w].runs = <<1, 1>>
      /\ dl[w].result.message = "yt-dlp error"
      /\ videos[dl[w].row].error_message = ErrCap

\* C12: the queue processor never starts on a row marked file_deleted,
\* whatever toggle_skip made of its skip flag; the only step that clears
\* file_deleted clears file_deleted and skip and nothing else, and the row
\* is then eligible exactly if it is not failed.
C12_DemotedUntilReset ==
    [][/\ \A t \in QueueThreads :
            (qp[t].pc = "iter" /\ qp'[t].pc = "download")
            => ~videos[RowOf(videos, dl'[t].video_id)].file_deleted
       /\ \A i \in DOMAIN videos :
            (i \in DOMAIN videos' /\ videos[i].file_deleted
               /\ ~videos'[i].file_deleted)
            => /\ videos'[i] = [videos[i] EXCEPT !.file_deleted = FALSE,
                                                !.skip = FALSE]
               /\ Eligible(videos'[i]) <=> ~videos[i].failed_download]_vars

\* A row the scanner demoted and toggle_skip then unskipped: the selection
\* finds nothing and the queue processor sleeps.
C12_Witness ==
    /\ changed_count > 0
    /\ qp["queue"].pc = "sleep" /\ qp["queue"].wait = "noitem"
    /\ SelectNext(videos, sources) = 0
    /\ \E i \in DOMAIN videos :
         /\ videos[i].file_deleted /\ ~videos[i].skip
         /\ ~videos[i].downloaded /\ ~videos[i].failed_download

\* C13: a download_video call made by the queue processor never starts on
\* a row recorded as failed and never clears failed_download; the poller
\* and the scanner never clear it either.
C13_FailedNeverAutoRetried ==
    [][\A t \in QueueThreads :
         (dl[t].pc = "begin" /\ dl'[t] # dl[t]
            /\ RowOf(videos, dl[t].video_id) # 0)
         => LET r == RowOf(videos, dl[t].video_id) IN
              /\ ~videos[r].failed_download \/ dl'[t].pc = "done"
              /\ videos'[r].failed_download = videos[r].failed_download]_vars

\* C14: with the queue processor started and never stopped, at most one
\* download_video called by a queue thread is in flight, and no second
\* queue thread exists.
C14_OneQueueAcquisition ==
    /\ Cardinality({t \in QueueThreads : dl[t].pc # "idle"}) <= 1
    /\ Cardinality({t \in QueueThreads :
                      qp[t].pc \notin {"unstarted", "exited"}}) <= 1

\* A queue acquisition is running the tool while the selection would
\* return a row to a second thread.
C14_Witness ==
    /\ download_queue_running
    /\ dl["queue"].pc = "attempt2"
    /\ SelectNext(videos, sources) # 0
    /\ \E i \in DOMAIN videos :
         videos[i].video_id # dl["queue"].video_id /\ Eligible(videos[i])

\* C15: once download_queue_running is cleared, a sleeping queue thread
\* sleeps at most the second it is in: it never completes a further second
\* of sleep with the flag cleared, whichever sleep of the loop it is in.
C15_StopAtNextCheckpoint ==
    \A t \in QueueThreads : qp[t].overrun <= 1

\* C16: an iteration of the queue processor that reads the global switch
\* off starts no download_video call, changes no row, and goes into the
\* fixed sleep after which the loop tests again.
C16_PausedSelectsNothing ==
    [][\A t \in QueueThreads :
         (qp[t].pc = "iter" /\ qp'[t] # qp[t] /\ ~global_auto_download)
         => /\ qp'[t].pc = "sleep" /\ qp'[t].wait = "paused"
            /\ qp'[t].left = PausedSleep
            /\ dl' = dl /\ videos' = videos /\ fs' = fs]_vars

\* The switch is off, a row is eligible, the thread sleeps its idle wait
\* and no download_video call is in flight.
C16_Witness ==
    /\ ~global_auto_download
    /\ qp["queue"].pc = "sleep" /\ qp["queue"].wait = "paused"
    /\ SelectNext(videos, sources) # 0
    /\ \A w \in Workers : dl[w].pc = "idle"

\* C17: with the process killed and restarted at any point of a
\* download_video call, no row of `videos` disappears or changes its video,
\* no video has two rows, every row is downloaded, or failed, or eligible
\* for the next selection; and a commit that marks a row downloaded is made
\* with the output file on disk in full and records its path.
C17_CrashSafe ==
    [][/\ Len(videos') >= Len(videos)
       /\ \A i \in DOMAIN videos : videos'[i].video_id = videos[i].video_id
       /\ \A i, j \in DOMAIN videos' :
            i # j => videos'[i].video_id # videos'[j].video_id
       /\ \A i \in DOMAIN videos' :
            LET r == videos'[i] IN
              \/ r.downloaded /\ r.download_path = OutputFile(r.video_id)
              \/ ~r.downloaded /\ r.failed_download
              \/ Eligible(r)
       /\ \A i \in DOMAIN videos :
            (~videos[i].downloaded /\ videos'[i].downloaded)
            => /\ FileAt(fs, OutputFile(videos[i].video_id)) = "full"
               /\ videos'[i].download_path = OutputFile(videos[i].video_id)]_vars

\* After a kill between the tool's exit and the commit: the output file is
\* on disk in full, the row is still eligible, the restarted queue thread
\* is at the top of its loop.
C17_Witness ==
    /\ cookie_op = "restart"
    /\ qp["queue"].pc = "top"
    /\ \A w \in Workers : dl[w].pc = "idle"
    /\ \E i \in DOMAIN videos :
         /\ Eligible(videos[i])
         /\ FileAt(fs, OutputFile(videos[i].video_id)) = "full"

\* C18: no loop thread ends on an exception: the poller is always at the
\* top of its loop or asleep, the scanner and the queue threads leave
\* their loop only from the while test with the flag cleared, and a thread
\* asleep after an exception goes from that sleep to the top of its loop.
C18_LoopsSurviveErrors ==
    [][/\ poller'.pc \in {"top", "sleep"}
       /\ (poller.wait = "error" /\ poller' # poller) => poller'.pc = "top"
       /\ (scanner'.pc = "exited" /\ scanner.pc # "exited")
            => scanner.pc = "top" /\ ~library_scan_running
       /\ (scanner.wait = "error" /\ scanner' # scanner) => scanner'.pc = "top"
       /\ \A t \in QueueThreads :
            /\ (qp'[t].pc = "exited" /\ qp[t].pc # "exited")
                 => qp[t].pc = "top" /\ ~download_queue_running
            /\ (qp[t].wait = "error" /\ qp'[t] # qp[t])
                 => qp'[t].pc = "top"]_vars

\* The three threads are in the sleep that follows an exception.
C18_Witness ==
    /\ poller.pc = "sleep" /\ poller.wait = "error"
    /\ scanner.pc = "sleep" /\ scanner.wait = "error"
    /\ qp["queue"].pc = "sleep" /\ qp["queue"].wait = "error"

\* C19: whatever the numeric settings hold, an iteration of the scanner
\* makes its pass over the downloaded rows, an iteration of the poller
\* makes its refresh pass, and an iteration of the queue processor with the
\* switch on and an eligible row starts download_video with the delay
\* taken from the setting, or 60 when it is missing or not a number.
C19_BadSettingStillWorks ==
    [][/\ (scanner.pc = "iter" /\ scanner' # scanner
              /\ ~ParseInt(settings["scan_interval"]).ok)
            => /\ videos' = ScanApply(videos, fs)
               /\ scanner'.wait # "error"
       /\ (poller.pc = "top" /\ poller' # poller
              /\ ~ParseInt(settings["check_interval"]).ok)
            => /\ sources' = RefreshChecked(sources)
               /\ poller'.wait # "error"
       /\ \A t \in QueueThreads :
            (qp[t].pc = "iter" /\ qp'[t] # qp[t] /\ global_auto_download
               /\ SelectNext(videos, sources) # 0)
            => /\ qp'[t].pc = "download"
               /\ dl'[t].pc = "begin"
               /\ ~ParseInt(settings["download_delay"]).ok
                    => qp'[t].delay = DefaultDelay]_vars

\* C20: after every add, set-default or delete of a subfolder exactly one
\* row of `subfolders` has is_default set, and a delete aimed at the
\* default subfolder is answered 400 and leaves subfolders and sources as
\* they were.
C20_ExactlyOneDefault ==
    [][/\ Cardinality({i \in DOMAIN subfolders' :
                         subfolders'[i].is_default}) = 1
       /\ \A k \in SubfolderIds :
            (/\ subfolder_response' # subfolder_response
             /\ subfolder_response'.op = "delete" /\ subfolder_response'.id = k
             /\ SubfolderRow(subfolders, k) # 0
             /\ subfolders[SubfolderRow(subfolders, k)].is_default)
            => /\ subfolder_response'.status = 400
               /\ subfolders' = subfolders /\ sources' = sources]_vars

\* The default was moved to a later subfolder, the first subfolder was
\* deleted and its source re-attached, and a delete of the default has
\* just been refused.
C20_Witness ==
    /\ subfolder_response = [op |-> "delete", id |-> DefaultSubfolderId(subfolders),
                             status |-> 400]
    /\ DefaultSubfolderId(subfolders) # 1
    /\ SubfolderRow(subfolders, 1) = 0
    /\ Len(subfolders) >= 2
    /\ \E s \in DOMAIN sources :
         sources[s].subfolder_id = DefaultSubfolderId(subfolders)

\* The video ids that have a row.
C21_LiveIds(vs) == {vs[i].video_id : i \in {j \in DOMAIN vs : RowLive(vs, j)}}

\* C21: the step that deletes a source leaves no row of `videos` with that
\* source and leaves the rows of other sources as they are; every row
\* belongs to a source that exists; and no step of a download_video call,
\* its commit after the deletion included, brings a video id back.
C21_DeleteSourceCascades ==
    [][/\ \A k \in DOMAIN sources :
            (sources[k] # DeletedSource
               /\ (k \notin DOMAIN sources' \/ sources'[k] = DeletedSource))
            => /\ \A i \in DOMAIN videos' : videos'[i].source_id # k
               /\ \A i \in DOMAIN videos :
                    (RowLive(videos, i) /\ videos[i].source_id # k)
                    => i \in DOMAIN videos' /\ videos'[i] = videos[i]
       /\ \A i \in DOMAIN videos' :
            RowLive(videos', i)
            => /\ videos'[i].source_id \in DOMAIN sources'
               /\ sources'[videos'[i].source_id] # DeletedSource
       /\ dl' # dl => C21_LiveIds(videos') = C21_LiveIds(videos)]_vars

\* A download_video call ran the tool to a full output file while the
\* source of its video was deleted: its commit raised, the video has no row.
C21_Witness ==
    \E w \in Workers :
      /\ dl[w].pc = "done" /\ dl[w].result.message = "raised"
      /\ Len(dl[w].runs) >= 1
      /\ RowOf(videos, dl[w].video_id) = 0
      /\ FileAt(fs, OutputFile(dl[w].video_id)) = "full"

\* Video v has an eligible row that belongs to a source of type "video".
C22_EligibleSingle(v) ==
    /\ RowOf(videos, v) # 0
    /\ Eligible(videos[RowOf(videos, v)])
    /\ sources[videos[RowOf(videos, v)].source_id].source_type = "video"

\* C22: with the global switch on and the queue processor scheduled
\* fairly, an eligible video of a source of type "video" is eventually
\* handed to download_video (or stops being eligible), whatever the
\* auto_download flag of its source and whatever other sources exist.
C22_SingleItemEventuallySelected ==
    \A v \in VideoIds :
      (C22_EligibleSingle(v) /\ global_auto_download)
        ~> \/ \E t \in QueueThreads :
                qp[t].pc = "download" /\ dl[t].video_id = v
           \/ ~C22_EligibleSingle(v)

\* C23: when a download_video call made by the queue processor ends, the
\* row of its video has downloaded or failed_download set, however the
\* call ended.
C23_AttemptEndsAcquiredOrFailed ==
    [][\A t \in QueueThreads :
         (qp[t].pc = "download" /\ dl[t].pc # "done" /\ dl'[t].pc = "done")
         => LET r == RowOf(videos', dl'[t].video_id) IN
              r # 0 /\ (videos'[r].downloaded \/ videos'[r].failed_download)]_vars

\* The delay the claim gives for each stored value of download_delay.
C24_Stated(row) ==
    IF ~row.present THEN 60
    ELSE CASE row.value = <<"0">> -> 5
           [] row.value = <<"3">> -> 5
           [] row.value = <<"7">> -> 7
           [] row.value = <<"-", "1">> -> 5
           [] row.value = <<"6", "0">> -> 60
           [] row.value = <<"x">> -> 60
           [] row.value = <<>> -> 60

C25_DelayBetweenAttempts ==
    [][\A t \in QueueThreads :
         /\ (qp[t].pc = "download" /\ qp'[t].pc # "download")
            => /\ qp'[t].pc = "sleep" /\ qp'[t].wait = "delay"
               /\ qp'[t].left = qp[t].delay
               /\ qp[t].delay = EffectiveDelay(settings["download_delay"])
         /\ (qp[t].pc = "sleep" /\ qp[t].wait = "delay" /\ qp'[t] # qp[t]
               /\ download_queue_running)
            => /\ qp'[t].left = qp[t].left - 1
               /\ qp'[t].pc = IF qp'[t].left = 0 THEN "top" ELSE "sleep"
         /\ (dl[t].pc = "idle" /\ dl'[t].pc # "idle") => qp[t].pc = "iter"]_vars

\* C26: once the shutdown has cleared the running flags, a sleeping
\* scanner and a sleeping poller leave their sleep at their next second,
\* in the interval sleep and in the sleep after an error alike.
C26_LoopsStopAtCheckpoint ==
    [][/\ (~library_scan_running /\ scanner.pc = "sleep" /\ scanner' # scanner)
          => scanner'.pc # "sleep"
       /\ (~library_scan_running /\ ~download_queue_running
             /\ poller.pc = "sleep" /\ poller' # poller)
          => poller'.pc # "sleep"]_vars

\* C27: for every result the resolver can give per collection source, one
\* pass of refresh_sources leaves every existing row of `videos` as it is,
\* inserts no row for a source whose result is empty, gives every
\* collection source, those with an empty result included, the
\* last_checked of the pass, and leaves the sources of type "video" and
\* their rows as they are.
C27_EmptyResultOnlyStamps ==
    \A L \in [CollectionRows(sources) -> Listings] :
      LET after == RefreshFrom(videos, sources, 1, L)
          checked == RefreshChecked(sources)
      IN
        /\ SubSeq(after, 1, Len(videos)) = videos
        /\ \A i \in (Len(videos) + 1)..Len(after) :
             /\ after[i].source_id \in CollectionRows(sources)
             /\ L[after[i].source_id] # <<>>
        /\ \A k \in CollectionRows(sources) :
             /\ checked[k].last_checked = UtcNow
             /\ checked[k] = [sources[k] EXCEPT !.last_checked = UtcNow]
        /\ \A k \in DOMAIN sources \ CollectionRows(sources) :
             checked[k] = sources[k]

\* A pass has gone over a collection source that has no row of its own
\* (nothing was inserted for it) and a source of type "video": the first
\* has the last_checked of the pass, the second that of its registration.
C27_Witness ==
    \E k, j \in DOMAIN sources :
      /\ k \in CollectionRows(sources) /\ sources[k].last_checked = UtcNow
      /\ \A i \in DOMAIN videos : videos[i].source_id # k
      /\ sources[j].source_type = "video" /\ sources[j].last_checked = AddedAt

\* C28: no step of a refresh_sources call before its commit changes
\* `videos` or `sources`; the commit either changes neither, or appends
\* every pending row and gives every loaded channel and playlist source
\* the last_checked of the pass, in the one step.
C28_PassCommitsOnce ==
    [][refresh' # refresh =>
         IF refresh.pc = "commit" /\ refresh'.last = "committed"
         THEN /\ videos' = videos \o refresh.added
              /\ \A k \in DOMAIN sources :
                   sources'[k] =
                     IF k \in CollectionRows(refresh.ss)
                     THEN [sources[k] EXCEPT !.last_checked = UtcNow]
                     ELSE sources[k]
         ELSE videos' = videos /\ sources' = sources]_vars

\* A call that had a row pending for one of two loaded collection sources
\* ended by an exception: the row is not in the table, and both sources
\* have the last_checked of their registration.
C28_Witness ==
    /\ refresh.pc = "idle" /\ refresh.last = "raised"
    /\ refresh.added # <<>>
    /\ \A i \in DOMAIN refresh.added :
         RowOf(videos, refresh.added[i].video_id) = 0
    /\ Cardinality(CollectionRows(refresh.ss)) = 2
    /\ \A k \in CollectionRows(refresh.ss) : sources[k].last_checked = AddedAt

\* The entries of the last flat listing that had a detailed lookup: the
\* lines that are entries with an id whose lookup gave a dict.
C29_Enriched ==
    {i \in DOMAIN resolver.lines :
       /\ resolver.lines[i].kind = "entry"
       /\ "id" \in DOMAIN resolver.lines[i].entry
       /\ resolver.lines[i].detailed.ok}

\* The listing was returned whole, one descriptor per line.
C29_Whole ==
    /\ resolver.fn = "get_collection_videos" /\ resolver.raised = "no"
    /\ Len(resolver.out) = Len(resolver.lines)

\* C29 as stated: the descriptor of an enriched entry has the keys of the
\* entry and of the lookup, and where both have a key, the value of the
\* listing entry.
C29_ListingWins ==
    C29_Whole =>
      \A i \in C29_Enriched :
        LET L == resolver.lines[i].entry
            D == resolver.lines[i].detailed.info
        IN /\ DOMAIN resolver.out[i] = DOMAIN L \cup DOMAIN D
           /\ \A key \in DOMAIN L \cap DOMAIN D : resolver.out[i][key] = L[key]

\* C29, amended: the descriptor of an enriched entry has the keys of the
\* entry and of the lookup; where both have a key the value is that of the
\* detailed lookup, and a key only the entry has keeps the entry's value;
\* an entry whose lookup failed is returned as it was printed.
C29_DetailedWins ==
    C29_Whole =>
      \A i \in DOMAIN resolver.lines :
        LET L == resolver.lines[i].entry
            D == resolver.lines[i].detailed.info
        IN IF i \in C29_Enriched
           THEN /\ DOMAIN resolver.out[i] = DOMAIN L \cup DOMAIN D
                /\ \A key \in DOMAIN D : resolver.out[i][key] = D[key]
                /\ \A key \in DOMAIN L \ DOMAIN D : resolver.out[i][key] = L[key]
           ELSE resolver.out[i] = L

\* A listing of two entries was returned: the first has a title that
\* differs from the one its lookup gave and is returned with the lookup's,
\* the lookup of the second failed.
C29_Witness ==
    /\ C29_Whole /\ Len(resolver.lines) = 2
    /\ 1 \in C29_Enriched
    /\ "title" \in DOMAIN resolver.lines[1].entry
    /\ "title" \in DOMAIN resolver.lines[1].detailed.info
    /\ resolver.lines[1].entry["title"] # resolver.lines[1].detailed.info["title"]
    /\ resolver.out[1]["title"] = resolver.lines[1].detailed.info["title"]
    /\ resolver.lines[2].kind = "entry" /\ ~resolver.lines[2].detailed.ok
    /\ "id" \in DOMAIN resolver.lines[2].entry

\* C30: a resolver call in which the tool could not be started, exited
\* with a non-zero status, or printed a line that is no JSON returns the
\* empty result and no exception leaves it.
C30_ResolverNeverRaises ==
    (/\ resolver.fn # "none"
     /\ \/ resolver.launch = "missing"
        \/ resolver.rc # 0
        \/ \E i \in DOMAIN resolver.lines : resolver.lines[i].kind = "bad")
    => resolver.out = <<>> /\ resolver.raised = "no"

\* C31: a download_video call given a failed row clears failed_download and
\* error_message and commits before the tool runs: from the step after the
\* lookup to the commit that ends the call, the stored row is not failed,
\* has no error message and is not downloaded, and it is eligible whenever
\* it is neither skipped nor marked file_deleted (acquisitions one at a
\* time).
C31_InFlight(w) == dl[w].pc \in {"prepare", "attempt1", "attempt2", "finish"}

C31_ResetBeforeAttempt ==
    \A w \in Workers :
      C31_InFlight(w)
      => LET r == videos[dl[w].row] IN
           /\ r.video_id = dl[w].video_id
           /\ ~r.failed_download
           /\ r.error_message = 0
           /\ ~r.downloaded
           /\ (~r.skip /\ ~r.file_deleted) => Eligible(r)

\* An on-demand call on a failed row has committed the reset and has not
\* yet run the tool; the row is eligible again.
C31_Witness ==
    /\ dl["manual"].pc = "prepare"
    /\ dl["manual"].expired
    /\ dl["manual"].runs = <<>>
    /\ Eligible(videos[dl["manual"].row])

\* C32: when the last run of the tool exited 0 and the output file is
\* missing or below 10000 bytes at the end of the call, the call returns
\* failure without another run of the tool, and its commit leaves the row
\* failed, not downloaded, with an error message of at least one character
\* and the download_path it had (acquisitions one at a time).
C32_MissingOrSmallIsFailure ==
    [][\A w \in Workers :
         (/\ dl[w].pc = "finish"
          /\ dl'[w].pc = "done"
          /\ dl[w].rc = 0
          /\ FileAt(fs, OutputFile(dl[w].video_id))
               \in {"nofolder", "nofile", "small"})
         => /\ ~dl'[w].result.success
            /\ dl'[w].runs = dl[w].runs
            /\ videos'[dl[w].row].failed_download
            /\ ~videos'[dl[w].row].downloaded
            /\ videos'[dl[w].row].error_message >= 1
            /\ videos'[dl[w].row].download_path
                 = videos[dl[w].row].download_path
            /\ videos'[dl[w].row].download_date
                 = videos[dl[w].row].download_date]_vars

\* A call whose only run of the tool exited 0 found a file below the
\* threshold and returned the failure of line 354.
C32_Witness ==
    \E w \in Workers :
      /\ dl[w].pc = "done"
      /\ dl[w].runs = <<0>>
      /\ dl[w].checked = "small"
      /\ dl[w].result.message = "Download failed or file too small"
      /\ videos[dl[w].row].failed_download
      /\ videos[dl[w].row].error_message = TooSmallLen

\* C33: whatever calls of start_download_queue and stop_download_queue were
\* made, while download_queue_running is set at most one thread of
\* process_download_queue is alive (started and not yet past a failed
\* `while download_queue_running` test).
C33_Alive == {t \in QueueThreads : qp[t].pc \notin {"unstarted", "exited"}}

C33_OneLoopAlive ==
    download_queue_running => Cardinality(C33_Alive) <= 1

\* C34: a row that is downloaded before and after a step, and whose
\* recorded download_path held a complete file before the step, has that
\* file after it: neither a download_video of another video nor a
\* delete_video_files on another video removes it (no removal from outside
\* the program).
C34_OtherFilesKept ==
    [][\A i \in DOMAIN videos :
         (/\ i \in DOMAIN videos'
          /\ videos[i].downloaded
          /\ videos'[i].downloaded
          /\ FileAt(fs, videos[i].download_path) = "full")
         => FileAt(fs', videos[i].download_path) = "full"]_vars

\* C35: the row a selection of the queue processor returns never belongs to
\* a channel or playlist source whose auto_download is off at that moment,
\* whatever its skip flag was set to and whether or not another source has
\* auto_download on.
C35_DisabledCollection(k) ==
    /\ k \in DOMAIN sources
    /\ sources[k].source_type \in {"channel", "playlist"}
    /\ ~sources[k].auto_download

C35_DisabledCollectionNeverSelected ==
    [][\A t \in QueueThreads :
         (qp[t].pc = "iter" /\ qp'[t].pc = "download")
         => ~C35_DisabledCollection(
               videos[RowOf(videos, dl'[t].video_id)].source_id)]_vars

\* The queue processor is in download_video on a row it selected past an
\* eligible row of lower rowid, made with skip off at registration, whose
\* collection has auto_download off.
C35_Witness ==
    \E t \in QueueThreads :
      /\ qp[t].pc = "download"
      /\ dl[t].pc = "begin"
      /\ \E i \in DOMAIN videos :
           /\ i < RowOf(videos, dl[t].video_id)
           /\ Eligible(videos[i])
           /\ C35_DisabledCollection(videos[i].source_id)

\* C36: whenever a download_video called by the queue processor runs the
\* tool, the stored row of its video has skip and file_deleted both false at
\* that moment, toggle_skip, delete_video_files and the switches of
\* auto_download being applied at any time.
C36_NoCheckThenActGap ==
    [][\A t \in QueueThreads :
         (/\ dl[t].pc \in {"attempt1", "attempt2"}
          /\ Len(dl'[t].runs) > Len(dl[t].runs))
         => /\ ~videos[dl[t].row].skip
            /\ ~videos[dl[t].row].file_deleted]_vars

\* C37: with a refresh_sources call interleaving with another pass and with
\* add_source, no two rows of `videos` have the same video_id and no two
\* rows of `sources` the same source_id; and once the call has ended, every
\* video it found to be new is in `videos` and every channel or playlist it
\* went over has the last_checked of a pass.
C37_UniqueIds ==
    /\ \A i, j \in DOMAIN videos :
         videos[i].video_id = videos[j].video_id => i = j
    /\ \A i, j \in DOMAIN sources :
         sources[i].source_id = sources[j].source_id => i = j

C37_NothingDiscarded ==
    (refresh.pc = "idle" /\ refresh.last # "none")
    => /\ \A i \in DOMAIN refresh.added :
            RowOf(videos, refresh.added[i].video_id) # 0
       /\ \A k \in CollectionRows(refresh.ss) :
            sources[k].last_checked = UtcNow

C37_UniqueAndComplete == C37_UniqueIds /\ C37_NothingDiscarded

\* C38: a delete_video_files call on a video that has no row, or whose row
\* is not downloaded, returns failure and leaves `videos` and the disk as
\* they are; a call that returns success leaves the row not downloaded,
\* file_deleted and skipped, its other columns and the other rows as they
\* were, and no folder at its download_path; a call on a downloaded row that
\* returns failure (shutil.rmtree raised) leaves `videos` as it is, the row
\* still downloaded.
C38_DeleteOutcomes ==
    [][delete_result' # delete_result
       => LET v == delete_result'.video_id
              r == RowOf(videos, v)
          IN
            /\ sources' = sources
            /\ (r = 0 \/ ~videos[r].downloaded)
               => /\ ~delete_result'.success
                  /\ videos' = videos
                  /\ fs' = fs
            /\ (r # 0 /\ videos[r].downloaded /\ delete_result'.success)
               => /\ videos' = [videos EXCEPT ![r].downloaded = FALSE,
                                              ![r].file_deleted = TRUE,
                                              ![r].skip = TRUE]
                  /\ ~FolderExists(fs', videos[r].download_path)
            /\ (r # 0 /\ videos[r].downloaded /\ ~delete_result'.success)
               => /\ videos' = videos
                  /\ FolderExists(fs, videos[r].download_path)]_vars

\* shutil.rmtree raised after it had removed the file: the call returned
\* failure and the row is still downloaded.
C38_Witness ==
    /\ delete_result.message = "Error"
    /\ ~delete_result.success
    /\ LET r == RowOf(videos, delete_result.video_id) IN
         /\ videos[r].downloaded
         /\ ~videos[r].file_deleted
         /\ FileAt(fs, videos[r].download_path) = "nofile"

\* C39: an add_source call that ends because the source id is registered
\* already, because the resolver yields no data, or with an exception
\* leaves `sources` and `videos` as they are; a call that registers its
\* source appends exactly that row to `sources` and, in the same step, one
\* row for each listed video that had none, so that every video of its
\* listing has a row as soon as the source is there.
C39_Ends(last) == adding' # adding /\ adding'.pc = "idle" /\ adding'.last = last

C39_AllOrNothing ==
    [][/\ (C39_Ends("exists") \/ C39_Ends("nodata") \/ C39_Ends("raised"))
          => videos' = videos /\ sources' = sources
       /\ C39_Ends("exists") => SourceExists(sources, adding'.sid)
       /\ C39_Ends("nodata") => adding'.listing = <<>>
       /\ C39_Ends("added")
          => /\ ~SourceExists(sources, adding.sid)
             /\ Len(sources') = Len(sources) + 1
             /\ SubSeq(sources', 1, Len(sources)) = sources
             /\ sources'[Len(sources')].source_id = adding.sid
             /\ SubSeq(videos', 1, Len(videos)) = videos
             /\ \A i \in DOMAIN adding.listing :
                  RowOf(videos', adding.listing[i]) # 0
             /\ \A r \in (Len(videos) + 1)..Len(videos') :
                  /\ videos'[r].source_id = Len(sources')
                  /\ RowOf(videos, videos'[r].video_id) = 0
                  /\ \E i \in DOMAIN adding.listing :
                       adding.listing[i] = videos'[r].video_id]_vars

\* A call has registered a collection of two videos of which one had a
\* row already: the source and the one new row were committed together.
C39_Witness ==
    /\ adding.pc = "idle" /\ adding.last = "added"
    /\ adding.sid \in CollectionIds
    /\ Len(adding.listing) = 2 /\ adding.listing[1] # adding.listing[2]
    /\ Len(sources) >= 2
    /\ sources[Len(sources)].source_id = adding.sid
    /\ Cardinality({r \in DOMAIN videos : videos[r].source_id = Len(sources)}) = 1

\* C4: the row the selection step of process_download_queue returns has
\* downloaded, file_deleted, skip and failed_download all false, whether or
\* not a source with auto_download exists.
C4_SelectionEligible ==
    LET i == SelectNext(videos, sources) IN
      i # 0 =>
        /\ i \in DOMAIN videos
        /\ ~videos[i].downloaded /\ ~videos[i].file_deleted
        /\ ~videos[i].skip /\ ~videos[i].failed_download

\* The queue processor has started the download of a row picked by the
\* fallback branch, passing over a failed row of lower rowid.
C4_Witness ==
    /\ qp["queue"].pc = "download" /\ dl["queue"].pc = "begin"
    /\ AutoSourceIds(sources) = {}
    /\ SelectNext(videos, sources) = RowOf(videos, dl["queue"].video_id)
    /\ \E j \in DOMAIN videos :
         /\ j < SelectNext(videos, sources)
         /\ videos[j].failed_download

\* The rows a scan pass has to flip, in the claim's words.
C7_Affected(i) ==
    /\ videos[i].downloaded
    /\ \/ videos[i].download_path = NoPath
       \/ FileAt(fs, videos[i].download_path) \in {"nofolder", "nofile"}

\* C7: one scan pass sets downloaded = false, file_deleted = true and
\* skip = true on exactly the downloaded rows whose download_path is not on
\* disk, counts them, and leaves every other row and every other column
\* (failed_download and error_message among them) as they were.
C7_ScanFlipsExactlyMissing ==
    /\ DOMAIN ScanApply(videos, fs) = DOMAIN videos
    /\ ScanCount(videos, fs) = Cardinality({i \in DOMAIN videos : C7_Affected(i)})
    /\ \A i \in DOMAIN videos :
         LET r == ScanApply(videos, fs)[i] IN
           IF C7_Affected(i)
           THEN /\ ~r.downloaded /\ r.file_deleted /\ r.skip
                /\ r.failed_download = videos[i].failed_download
                /\ r.error_message = videos[i].error_message
                /\ r.video_id = videos[i].video_id
                /\ r.source_id = videos[i].source_id
                /\ r.download_path = videos[i].download_path
                /\ r.download_date = videos[i].download_date
           ELSE r = videos[i]

\* A pass is about to flip one row and to leave a downloaded row whose file
\* is on disk, after an earlier pass flipped one.
C7_Witness ==
    /\ changed_count > 0
    /\ \E i, j \in DOMAIN videos :
         /\ C7_Affected(i)
         /\ videos[j].downloaded /\ ~C7_Affected(j)

\* C8: a second scan pass right after a first one, nothing else changing in
\* between, counts zero rows and leaves the table as the first pass left it.
C8_ScanIdempotent ==
    LET once == ScanApply(videos, fs) IN
      /\ ScanCount(once, fs) = 0
      /\ ScanApply(once, fs) = once

\* A state in which the first pass does flip a row (and an earlier pass has
\* flipped another one).
C8_Witness ==
    /\ ScanCount(videos, fs) > 0
    /\ changed_count > 0
    /\ \E i \in DOMAIN videos : videos[i].file_deleted /\ ~videos[i].downloaded

\* The video ids the listings L hold, and the first collection row listing v.
C9_Listed(L) == UNION {{L[k][n] : n \in DOMAIN L[k]} : k \in DOMAIN L}

C9_FirstLister(L, v) ==
    CHOOSE k \in DOMAIN L :
      /\ \E n \in DOMAIN L[k] : L[k][n] = v
      /\ \A m \in DOMAIN L : (\E n \in DOMAIN L[m] : L[m][n] = v) => k <= m

\* C9: for every listing the resolver can return per collection source, one
\* pass of refresh_sources keeps the existing rows as they are, appends one
\* row for exactly the listed video ids not yet in the table (none twice,
\* whether one listing repeats it or two sources list it), each new row with
\* skip = not auto_download of the source that inserted it.
C9_PollerInsertsNew ==
    \A L \in [CollectionRows(sources) -> Listings] :
      LET after == RefreshFrom(videos, sources, 1, L)
          old == {videos[i].video_id : i \in DOMAIN videos}
          new == (Len(videos) + 1)..Len(after)
      IN
        /\ Len(after) >= Len(videos)
        /\ SubSeq(after, 1, Len(videos)) = videos
        /\ \A i, j \in DOMAIN after :
             after[i].video_id = after[j].video_id => i = j
        /\ {after[i].video_id : i \in new} = C9_Listed(L) \ old
        /\ \A i \in new :
             after[i] = NewVideo(after[i].video_id,
                                 C9_FirstLister(L, after[i].video_id),
                                 ~sources[C9_FirstLister(L, after[i].video_id)].auto_download)

\* Two rows of one collection source: one discovered while auto_download
\* was on, one inserted by a pass after it had been switched off.
C9_Witness ==
    \E i, j \in DOMAIN videos :
      /\ i < j
      /\ videos[i].source_id = videos[j].source_id
      /\ sources[videos[i].source_id].source_type # "video"
      /\ ~sources[videos[i].source_id].auto_download
      /\ ~videos[i].skip /\ videos[j].skip

\* C5: whenever the credential setting holds a non-blank text C, a call of
\* get_cookie_file returns the path of a file whose contents equal C (the
\* state right after the call, the setting being the one the call read).
C5_RoundTrip ==
    (cookie_op = "get_cookie_file" /\ ~CookiesBlank) =>
        /\ cookie_result = CookiePath
        /\ cookie_disk = [exists |-> TRUE, content |-> cookie_setting.value]

\* C6: when the credential setting is empty or blank, a call of
\* get_cookie_file returns none and leaves no file at the fixed path and no
\* cached path.
C6_BlankClears ==
    (cookie_op = "get_cookie_file" /\ CookiesBlank) =>
        /\ cookie_result = "None"
        /\ ~cookie_disk.exists
        /\ GLOBAL_COOKIE_FILE = "None"

=============================================================================
